---- MODULE Spec2Model ----
(***************************************************************************)
(* Ingestion and retrieval core of crambuddy-server: the chunker, the      *)
(* surrogate vectorizer, the retrieval engine and the ingestion pipeline;  *)
(* and its accounts: requireAuth, the upload quota and the subscriptions.  *)
(*                                                                         *)
(* A text is a sequence of one-character strings.  Scores are fixed-point  *)
(* integers in units of 1/SCORE_SCALE.                                     *)
(***************************************************************************)
EXTENDS Integers, Sequences, FiniteSets, Bags, TLC

VARIABLES
  chk,      \* the chunker call under study: its arguments and its results
  docs,     \* Document table: id -> record, or NoDoc when there is no such row
  chunks,   \* Chunk table: the sequence of rows, in insertion order
  run,      \* the processDocument run: its position and its locals
  ret,      \* the outcome of the last retrieval / keyword-search call
  users,          \* User table: id -> plan, uploadCount, paystackSubscriptionCode
  subscriptions,  \* Subscription table: the sequence of rows, in insertion order
  clock,          \* the current date, in days
  handlers        \* the requests, webhooks and jobs in progress: position and locals

\* The tables and the handlers of accounts and billing.
billing == <<users, subscriptions, clock, handlers>>

vars == <<chk, docs, chunks, run, ret, billing>>

\* No account, no subscription, nothing in progress.
NoBilling ==
  /\ users = <<>>
  /\ subscriptions = <<>>
  /\ clock = 0
  /\ handlers = <<>>

(***************************************************************************)
(* Bounds of the model                                                     *)
(***************************************************************************)
MaxLen == 6          \* longest text handed to chunkText
MaxOverlap == 2      \* largest overlap handed to chunkText
MaxRows == 3         \* most chunk rows in the store a retrieval reads
MaxRuns == 2         \* most runs of processDocument for one document
MaxDim == 3          \* longest vector handed to cosineSimilarity on its own
MaxText == 4         \* longest text handed to generateEmbedding on its own
NormTolerance == 2   \* rounding allowance on a norm, in units of 1/SCORE_SCALE
MaxStepLen == 4      \* longest text handed to chunkText when its loops are stepped
MaxPushed == 3       \* fragments of one hardSplit call counted before the count saturates
MaxBetween == 2      \* most chunkText calls made between two calls with equal arguments
MaxRequests == 2     \* most requests, webhooks and jobs one handler slot runs
MaxDays == 32        \* the clock stops past this day
TickDays == 16       \* days the clock moves at a time

(***************************************************************************)
(* Strings                                                                 *)
(***************************************************************************)
Min(a, b) == IF a <= b THEN a ELSE b
Max(a, b) == IF a >= b THEN a ELSE b

\* IsSpace that does not know the line break.
IsSpaceNoNewline(c) == c \in {" ", "\r", "\t"}

\* White space as String.prototype.trim and the regex class \s see it.
IsSpace(c) == c \in {" ", "\n", "\r", "\t"}

\* The regex class [.!?] of the sentence matcher.
IsTerminator(c) == c \in {".", "!", "?"}

\* The least element of a non-empty set of numbers.
Lowest(S) == CHOOSE x \in S : \A y \in S : x <= y

\* Number of consecutive white-space characters in s from position i on,
\* and from position i back.
RECURSIVE SpaceRun(_, _)
SpaceRun(s, i) ==
  IF i <= Len(s) /\ IsSpace(s[i]) THEN 1 + SpaceRun(s, i + 1) ELSE 0

RECURSIVE SpaceRunBack(_, _)
SpaceRunBack(s, i) ==
  IF i >= 1 /\ IsSpace(s[i]) THEN 1 + SpaceRunBack(s, i - 1) ELSE 0

\* String.prototype.trim
trim(s) ==
  LET lo == 1 + SpaceRun(s, 1)
      hi == Len(s) - SpaceRunBack(s, Len(s))
  IN  IF lo > hi THEN <<>> ELSE SubSeq(s, lo, hi)

\* String.prototype.slice(from, to) with 0-based, non-negative arguments.
slice(s, from, to) == SubSeq(s, from + 1, Min(to, Len(s)))

\* String.prototype.slice(-n) for n > 0: the last n characters.
sliceLast(s, n) == SubSeq(s, Max(Len(s) - n, 0) + 1, Len(s))

\* Number of consecutive "\n" in s from position i on.
RECURSIVE NewlineRun(_, _)
NewlineRun(s, i) ==
  IF i <= Len(s) /\ s[i] = "\n" THEN 1 + NewlineRun(s, i + 1) ELSE 0

\* text.replace(/\r\n/g, '\n'): the matches are replaced from left to right.
RECURSIVE replaceCrLf(_)
replaceCrLf(s) ==
  LET hits == {i \in 1..(Len(s) - 1) : s[i] = "\r" /\ s[i + 1] = "\n"}
  IN  IF hits = {} THEN s
      ELSE LET i == Lowest(hits)
           IN  SubSeq(s, 1, i - 1) \o <<"\n">> \o replaceCrLf(SubSeq(s, i + 2, Len(s)))

\* text.replace(/\n{3,}/g, '\n\n') from position i on: every maximal run of
\* three or more newlines becomes two.
RECURSIVE collapseNewlines(_, _)
collapseNewlines(s, i) ==
  LET hits == {j \in i..Len(s) : NewlineRun(s, j) >= 3}
  IN  IF hits = {} THEN SubSeq(s, i, Len(s))
      ELSE LET j == Lowest(hits)
           IN  SubSeq(s, i, j - 1) \o <<"\n", "\n">>
                 \o collapseNewlines(s, j + NewlineRun(s, j))

\* cleanedText.split(/\n\n+/) from position i on: the pieces between maximal
\* runs of two or more newlines; cur is the piece read so far.
RECURSIVE splitParagraphs(_, _, _)
splitParagraphs(s, i, cur) ==
  LET hits == {j \in i..Len(s) : NewlineRun(s, j) >= 2}
  IN  IF hits = {} THEN <<cur \o SubSeq(s, i, Len(s))>>
      ELSE LET j == Lowest(hits)
           IN  <<cur \o SubSeq(s, i, j - 1)>>
                 \o splitParagraphs(s, j + NewlineRun(s, j), <<>>)

(***************************************************************************)
(* Chunker                                                                 *)
(***************************************************************************)
\* Number of consecutive non-terminators / terminators in s from i on.
RECURSIVE NonTermRun(_, _)
NonTermRun(s, i) ==
  IF i <= Len(s) /\ ~IsTerminator(s[i]) THEN 1 + NonTermRun(s, i + 1) ELSE 0

RECURSIVE TermRun(_, _)
TermRun(s, i) ==
  IF i <= Len(s) /\ IsTerminator(s[i]) THEN 1 + TermRun(s, i + 1) ELSE 0

\* text.match(/[^.!?]+[.!?]+/g): the successive leftmost greedy matches
\* from position p on; <<>> stands for null (no match).
RECURSIVE matchSentences(_, _)
matchSentences(s, p) ==
  IF p > Len(s) THEN <<>>
  ELSE IF IsTerminator(s[p]) THEN matchSentences(s, p + 1)
  ELSE LET q == p + NonTermRun(s, p)
       IN  IF q > Len(s) THEN <<>>
           ELSE LET r == q + TermRun(s, q)
                IN  <<SubSeq(s, p, r - 1)>> \o matchSentences(s, r)

\* hardSplit with fragments one character too long.
hardSplitOffByOne(text, chunkSize) ==
  [k \in 1..((Len(text) + chunkSize) \div (chunkSize + 1)) |->
     slice(text, (k - 1) * (chunkSize + 1), k * (chunkSize + 1))]

\* hardSplit: fragments text.slice(i, i + chunkSize) for i = 0, chunkSize, ...
hardSplit(text, chunkSize) ==
  [k \in 1..((Len(text) + chunkSize - 1) \div chunkSize) |->
     slice(text, (k - 1) * chunkSize, k * chunkSize)]

\* subChunks.slice(0, -1) and subChunks[subChunks.length - 1] || ''
allButLast(q) == IF q = <<>> THEN <<>> ELSE SubSeq(q, 1, Len(q) - 1)
lastOrEmpty(q) == IF q = <<>> THEN <<>> ELSE q[Len(q)]

\* The sentence loop of splitLongParagraph, from sentence i on, with the
\* chunks pushed so far and the chunk being filled.
RECURSIVE sentenceLoop(_, _, _, _, _)
sentenceLoop(sentences, i, acc, currentChunk, chunkSize) ==
  IF i > Len(sentences)
  THEN IF currentChunk # <<>> THEN Append(acc, currentChunk) ELSE acc
  ELSE
    LET trimmedSentence == trim(sentences[i]) IN
    IF Len(currentChunk) + Len(trimmedSentence) + 1 <= chunkSize
    THEN sentenceLoop(sentences, i + 1, acc,
           currentChunk \o (IF currentChunk # <<>> THEN <<" ">> ELSE <<>>)
                        \o trimmedSentence,
           chunkSize)
    ELSE
      LET saved == IF currentChunk # <<>> THEN Append(acc, currentChunk) ELSE acc IN
      IF Len(trimmedSentence) > chunkSize
      THEN LET hardChunks == hardSplit(trimmedSentence, chunkSize)
           IN  sentenceLoop(sentences, i + 1, saved \o allButLast(hardChunks),
                            lastOrEmpty(hardChunks), chunkSize)
      ELSE sentenceLoop(sentences, i + 1, saved, trimmedSentence, chunkSize)

splitLongParagraph(text, chunkSize) ==
  LET m == matchSentences(text, 1)
      sentences == IF m = <<>> THEN <<text>> ELSE m
  IN  sentenceLoop(sentences, 1, <<>>, <<>>, chunkSize)

\* The paragraph loop of chunkText, from paragraph i on.
RECURSIVE paragraphLoop(_, _, _, _, _)
paragraphLoop(paragraphs, i, acc, currentChunk, chunkSize) ==
  IF i > Len(paragraphs)
  THEN IF currentChunk # <<>> THEN Append(acc, currentChunk) ELSE acc
  ELSE
    LET trimmedParagraph == trim(paragraphs[i]) IN
    IF trimmedParagraph = <<>>
    THEN paragraphLoop(paragraphs, i + 1, acc, currentChunk, chunkSize)
    ELSE IF Len(currentChunk) + Len(trimmedParagraph) + 2 <= chunkSize
    THEN paragraphLoop(paragraphs, i + 1, acc,
           currentChunk \o (IF currentChunk # <<>> THEN <<"\n", "\n">> ELSE <<>>)
                        \o trimmedParagraph,
           chunkSize)
    ELSE
      LET saved == IF currentChunk # <<>> THEN Append(acc, currentChunk) ELSE acc IN
      IF Len(trimmedParagraph) > chunkSize
      THEN LET subChunks == splitLongParagraph(trimmedParagraph, chunkSize)
           IN  paragraphLoop(paragraphs, i + 1, saved \o allButLast(subChunks),
                             lastOrEmpty(subChunks), chunkSize)
      ELSE paragraphLoop(paragraphs, i + 1, saved, trimmedParagraph, chunkSize)

\* The list chunkText hands to applyOverlap (its local `chunks`).
preOverlapChunks(text, chunkSize) ==
  IF trim(text) = <<>> THEN <<>>
  ELSE LET cleanedText == trim(collapseNewlines(replaceCrLf(text), 1))
           paragraphs == splitParagraphs(cleanedText, 1, <<>>)
       IN  paragraphLoop(paragraphs, 1, <<>>, <<>>, chunkSize)

OVERLAP_SEPARATOR == <<" ", ".", ".", ".", " ">>

\* applyOverlap that injects the prefix only for overlap > 1.
applyOverlapOffByOne(chunkList, overlap) ==
  [i \in 1..Len(chunkList) |->
     IF i > 1 /\ overlap > 1
     THEN sliceLast(chunkList[i - 1], overlap) \o OVERLAP_SEPARATOR \o chunkList[i]
     ELSE chunkList[i]]

\* applyOverlap: every chunk but the first gets the last `overlap`
\* characters of its predecessor and ' ... ' in front.
applyOverlap(chunkList, overlap) ==
  IF overlap <= 0 \/ Len(chunkList) <= 1 THEN chunkList
  ELSE [i \in 1..Len(chunkList) |->
          IF i > 1
          THEN sliceLast(chunkList[i - 1], overlap) \o OVERLAP_SEPARATOR \o chunkList[i]
          ELSE chunkList[i]]

chunkText(text, chunkSize, overlap) ==
  applyOverlap(preOverlapChunks(text, chunkSize), overlap)

(***************************************************************************)
(* The chunker called on its own                                           *)
(***************************************************************************)
\* The characters texts are built from: a letter, a sentence terminator,
\* a blank and a line break.
Chars == {"a", ".", " ", "\n"}

RECURSIVE TextsOfLen(_)
TextsOfLen(n) ==
  IF n = 0 THEN {<<>>}
  ELSE {Append(t, c) : t \in TextsOfLen(n - 1), c \in Chars}

Texts == UNION {TextsOfLen(n) : n \in 0..MaxLen}

\* Chunk sizes from one character up to one short of the longest text, and
\* overlaps from none up to MaxOverlap.
ChunkSizes == {1, 2, 3, MaxLen - 1}
Overlaps == {0, 1, MaxOverlap}

NoDocs == <<>>
IdleRun == [pc |-> "idle"]
NoRet == [op |-> "none"]

InitChunk ==
  /\ chk \in [text : Texts, chunkSize : ChunkSizes, overlap : Overlaps,
              called : {FALSE}, pre : {<<>>}, out : {<<>>}]
  /\ docs = NoDocs
  /\ chunks = <<>>
  /\ run = IdleRun
  /\ ret = NoRet
  /\ NoBilling

\* chunkText(text, chunkSize, overlap)
ChunkTextCall ==
  /\ ~chk.called
  /\ chk' = [chk EXCEPT !.called = TRUE,
                        !.pre = preOverlapChunks(chk.text, chk.chunkSize),
                        !.out = chunkText(chk.text, chk.chunkSize, chk.overlap)]
  /\ UNCHANGED <<docs, chunks, run, ret, billing>>

NextChunk == ChunkTextCall

SpecChunk == InitChunk /\ [][NextChunk]_vars

(***************************************************************************)
(* Chunker properties                                                      *)
(***************************************************************************)
\* The trimmed paragraphs chunkText iterates over.
TrimmedParagraphs(text) ==
  LET ps == splitParagraphs(trim(collapseNewlines(replaceCrLf(text), 1)), 1, <<>>)
  IN  {trim(ps[i]) : i \in 1..Len(ps)}

\* The trimmed sentences of the paragraphs longer than chunkSize.
TrimmedSentences(text, chunkSize) ==
  UNION { LET m == matchSentences(p, 1)
              ss == IF m = <<>> THEN <<p>> ELSE m
          IN  {trim(ss[i]) : i \in 1..Len(ss)}
          : p \in {q \in TrimmedParagraphs(text) : Len(q) > chunkSize} }

\* The sentences that are hard-split: those longer than chunkSize.
HardSplitSentences(text, chunkSize) ==
  {s \in TrimmedSentences(text, chunkSize) : Len(s) > chunkSize}

Elems(q) == {q[i] : i \in 1..Len(q)}

\* C9: every segment chunkText builds before overlap injection is at most
\* chunkSize characters long, and of the fragments a hard-split sentence is
\* cut into, each but the last is a segment of exactly chunkSize characters.
C9_SizeBound ==
  chk.called =>
    /\ \A i \in 1..Len(chk.pre) : Len(chk.pre[i]) <= chk.chunkSize
    /\ \A s \in HardSplitSentences(chk.text, chk.chunkSize) :
         LET h == hardSplit(s, chk.chunkSize)
         IN  \A k \in 1..(Len(h) - 1) :
               Len(h[k]) = chk.chunkSize /\ h[k] \in Elems(chk.pre)

\* A call that hard-splits a sentence into three fragments or more, the last
\* one shorter than chunkSize.
C9_Witness ==
  /\ chk.called
  /\ \E s \in HardSplitSentences(chk.text, chk.chunkSize) :
       LET h == hardSplit(s, chk.chunkSize)
       IN  Len(h) >= 3 /\ Len(h[Len(h)]) < chk.chunkSize
  /\ \E i \in 1..Len(chk.pre) : Len(chk.pre[i]) < chk.chunkSize

\* The last n characters of s.
Suffix(s, n) == [k \in 1..n |-> s[Len(s) - n + k]]

\* C10: with overlap >= 1, output segment i (i >= 1, counted from 0) is the
\* last min(overlap, length) characters of pre-overlap segment i-1, then the
\* separator " ... ", then pre-overlap segment i; segment 0 has no prefix.
C10_Overlap ==
  (chk.called /\ chk.overlap >= 1) =>
    /\ Len(chk.out) = Len(chk.pre)
    /\ \A i \in 1..Len(chk.out) :
         chk.out[i] =
           IF i = 1 THEN chk.pre[1]
           ELSE Suffix(chk.pre[i - 1], Min(chk.overlap, Len(chk.pre[i - 1])))
                  \o <<" ", ".", ".", ".", " ">> \o chk.pre[i]

\* A call with overlap whose output has a segment following one shorter
\* than the overlap and a segment following one at least as long.
C10_Witness ==
  /\ chk.called
  /\ chk.overlap >= 1
  /\ \E i \in 2..Len(chk.out) : Len(chk.pre[i - 1]) < chk.overlap
  /\ \E i \in 2..Len(chk.out) : Len(chk.pre[i - 1]) >= chk.overlap

(***************************************************************************)
(* Vectorizer                                                              *)
(***************************************************************************)
EMBEDDING_DIM == 768
SCORE_SCALE == 100

\* String.prototype.charCodeAt for the characters of the model.
charCode(c) ==
  CASE c = "a" -> 97 [] c = "b" -> 98 [] c = "c" -> 99
    [] c = "A" -> 65 [] c = "B" -> 66
    [] c = "." -> 46 [] c = " " -> 32 [] c = "\n" -> 10
    [] c = "\r" -> 13 [] c = "\t" -> 9 [] c = "!" -> 33 [] c = "?" -> 63

\* String.prototype.toLowerCase
lowerChar(c) == CASE c = "A" -> "a" [] c = "B" -> "b" [] OTHER -> c
toLowerCase(s) == [i \in 1..Len(s) |-> lowerChar(s[i])]

\* s.split(/\s+/) from position i on: the pieces between maximal white-space
\* runs, the empty pieces at either end included; cur is the piece read so far.
RECURSIVE splitWhitespace(_, _, _)
splitWhitespace(s, i, cur) ==
  LET hits == {j \in i..Len(s) : IsSpace(s[j])}
  IN  IF hits = {} THEN <<cur \o SubSeq(s, i, Len(s))>>
      ELSE LET j == Lowest(hits)
           IN  <<cur \o SubSeq(s, i, j - 1)>>
                 \o splitWhitespace(s, j + SpaceRun(s, j), <<>>)

\* [...new Set(words)]: first occurrences, in order.
RECURSIVE uniqueInOrder(_, _)
uniqueInOrder(ws, seen) ==
  IF ws = <<>> THEN <<>>
  ELSE IF ws[1] \in seen THEN uniqueInOrder(Tail(ws), seen)
       ELSE <<ws[1]>> \o uniqueInOrder(Tail(ws), seen \cup {ws[1]})

\* generateEmbedding.  The vector is kept by its integer numerators: w[k] is
\* the number of (word, character) pairs accumulated into index k, listed for
\* the indices hit at least once; component k of the returned vector is
\* w[k] / sqrt(sum of w[j]^2), and 0 everywhere when nothing was accumulated.
generateEmbedding(text) ==
  LET words == splitWhitespace(toLowerCase(text), 1, <<>>)
      uniqueWords == uniqueInOrder(words, {})
      hits == {<<i, j>> \in (1..Len(uniqueWords)) \X (1..Len(text)) :
                 j <= Len(uniqueWords[i])}
      idx(h) == (charCode(uniqueWords[h[1]][h[2]]) * h[1] * h[2]) % EMBEDDING_DIM
      support == {idx(h) : h \in hits}
  IN  [dim |-> EMBEDDING_DIM,
       w |-> [k \in support |-> Cardinality({h \in hits : idx(h) = k})]]

(***************************************************************************)
(* Retrieval engine                                                        *)
(***************************************************************************)
\* Sum of f(x) over the finite set S, f given as a function on S with
\* values in Nat: the size of the bag holding f(x) copies of each x.
SumOver(f, S) ==
  BagCardinality([x \in {y \in S : f[y] > 0} |-> f[x]])

\* floor(sqrt(n)) for 0 <= n <= SCORE_SCALE^2, by bisection of lo..hi
RECURSIVE ISqrtBetween(_, _, _)
ISqrtBetween(n, lo, hi) ==
  IF lo = hi THEN lo
  ELSE LET mid == (lo + hi + 1) \div 2
       IN  IF mid * mid <= n THEN ISqrtBetween(n, mid, hi)
           ELSE ISqrtBetween(n, lo, mid - 1)

ISqrt(n) == ISqrtBetween(n, 0, SCORE_SCALE)

\* cosineSimilarity, in units of 1/SCORE_SCALE rounded down.  With
\* dot, normA, normB the sums over the numerators, the code's quotient
\* dotProduct / (sqrt(normA) * sqrt(normB)) is dot / sqrt(normA * normB).
cosineSimilarity(a, b) ==
  IF a.dim # b.dim THEN 0
  ELSE LET both == DOMAIN a.w \cap DOMAIN b.w
           dotProduct == SumOver([k \in both |-> a.w[k] * b.w[k]], both)
           normA == SumOver([k \in DOMAIN a.w |-> a.w[k] * a.w[k]], DOMAIN a.w)
           normB == SumOver([k \in DOMAIN b.w |-> b.w[k] * b.w[k]], DOMAIN b.w)
       IN  IF normA * normB = 0 THEN 0
           ELSE ISqrt((SCORE_SCALE * SCORE_SCALE * dotProduct * dotProduct)
                        \div (normA * normB))


NULL == "null"                    \* a null column (courseCode)
UNDEFINED == "undefined"          \* an argument left out by the caller
NullEmbedding == [null |-> TRUE]  \* a null embedding column

\* JavaScript truthiness of an optional string.
Truthy(v) == v \notin {UNDEFINED, NULL, ""}

DEFAULT_TOP_K == 5
DEFAULT_LIMIT == 5

\* prisma.chunk.findMany({ where: { embedding: { not: null } } })
chunksWithEmbedding(table) ==
  SelectSeq(table, LAMBDA r : r.embedding # NullEmbedding)

\* chunksOfCourse handing back the vectorized chunks only.
chunksOfCourseVectorized(table, courseCode, docTable) ==
  SelectSeq(table, LAMBDA r : /\ r.embedding # NullEmbedding
                              /\ Truthy(courseCode) =>
                                   docTable[r.documentId].courseCode = courseCode)

\* prisma.chunk.findMany({ where: courseCode ? { document: { courseCode } }
\*                                           : undefined })
chunksOfCourse(table, courseCode, docTable) ==
  IF Truthy(courseCode)
  THEN SelectSeq(table, LAMBDA r : docTable[r.documentId].courseCode = courseCode)
  ELSE table

\* The orders in which the store may hand back the rows of a findMany that
\* states no orderBy.
RowOrders(rows) ==
  {[i \in 1..Len(rows) |-> rows[p[i]]] : p \in Permutations(1..Len(rows))}

\* filterByCourse falling back to all chunks when the filter keeps none.
filterByCourseWithFallback(allChunks, courseCode, docTable) ==
  LET kept == SelectSeq(allChunks,
                LAMBDA c : docTable[c.documentId].courseCode = courseCode)
  IN  IF Truthy(courseCode) /\ kept # <<>> THEN kept ELSE allChunks

\* filterByCourse ignoring the course code.
filterByCourseNone(allChunks, courseCode, docTable) == allChunks

\* courseCode ? allChunks.filter(c => c.document.courseCode === courseCode)
\*            : allChunks
filterByCourse(allChunks, courseCode, docTable) ==
  IF Truthy(courseCode)
  THEN SelectSeq(allChunks, LAMBDA c : docTable[c.documentId].courseCode = courseCode)
  ELSE allChunks

\* filteredChunks.map(chunk => ({ id, documentId, content, confidence, score }))
scoreChunks(filteredChunks, queryEmbedding, docTable) ==
  [i \in 1..Len(filteredChunks) |->
     [id |-> filteredChunks[i].id,
      documentId |-> filteredChunks[i].documentId,
      content |-> filteredChunks[i].content,
      confidence |-> docTable[filteredChunks[i].documentId].confidence,
      score |-> cosineSimilarity(queryEmbedding, filteredChunks[i].embedding)]]

\* Array.prototype.sort((a, b) => b.score - a.score): a stable sort, so x
\* goes behind every element whose score is at least its own.
insertByScore(sorted, x) ==
  LET k == Cardinality({i \in 1..Len(sorted) : sorted[i].score >= x.score})
  IN  SubSeq(sorted, 1, k) \o <<x>> \o SubSeq(sorted, k + 1, Len(sorted))

RECURSIVE sortFrom(_, _, _)
sortFrom(list, i, sorted) ==
  IF i > Len(list) THEN sorted
  ELSE sortFrom(list, i + 1, insertByScore(sorted, list[i]))

sortByScoreDesc(list) == sortFrom(list, 1, <<>>)

\* slice(0, n + 1)
sliceTopKOffByOne(list, n) == SubSeq(list, 1, Min(n + 1, Len(list)))

\* Array.prototype.slice(0, n) for n >= 0
sliceTopK(list, n) == SubSeq(list, 1, Min(n, Len(list)))

RECURSIVE sumScores(_)
sumScores(list) ==
  IF list = <<>> THEN 0 ELSE list[1].score + sumScores(Tail(list))

\* aggregateConfidence with inclusive thresholds (>= 0.8, >= 0.5).
aggregateConfidenceInclusive(scoredChunks) ==
  LET n == Len(scoredChunks)
      sum == sumScores(scoredChunks)
  IN  IF n = 0 THEN "low"
      ELSE IF 10 * sum >= 8 * SCORE_SCALE * n THEN "high"
      ELSE IF 10 * sum >= 5 * SCORE_SCALE * n THEN "medium"
      ELSE "low"

\* avgScore = sum / length; 'high' if avgScore > 0.8, 'medium' if > 0.5,
\* else 'low'.  For an empty list avgScore is NaN, which compares false.
aggregateConfidence(scoredChunks) ==
  LET n == Len(scoredChunks)
      sum == sumScores(scoredChunks)
  IN  IF n = 0 THEN "low"
      ELSE IF 10 * sum > 8 * SCORE_SCALE * n THEN "high"
      ELSE IF 10 * sum > 5 * SCORE_SCALE * n THEN "medium"
      ELSE "low"

\* The try block of retrieveRelevantChunks once findMany has returned
\* allChunks.  `scored` is the mapped list before sort and slice.
retrieveFrom(query, courseCode, topK, allChunks, docTable) ==
  LET queryEmbedding == generateEmbedding(query)
      filteredChunks == filterByCourse(allChunks, courseCode, docTable)
  IN  IF Len(filteredChunks) = 0
      THEN [scored |-> <<>>, chunks |-> <<>>, confidence |-> "low"]
      ELSE LET scored == scoreChunks(filteredChunks, queryEmbedding, docTable)
               scoredChunks == sliceTopK(sortByScoreDesc(scored), topK)
           IN  [scored |-> scored, chunks |-> scoredChunks,
                confidence |-> aggregateConfidence(scoredChunks)]

\* The catch block of retrieveRelevantChunks.
retrieveCatch == [scored |-> <<>>, chunks |-> <<>>, confidence |-> "low"]

\* String.prototype.includes
includes(s, sub) ==
  \E i \in 0..(Len(s) - Len(sub)) : SubSeq(s, i + 1, i + Len(sub)) = sub

\* query.toLowerCase().split(/\s+/).filter(k => k.length > 2)
keywordsOf(query) ==
  SelectSeq(splitWhitespace(toLowerCase(query), 1, <<>>), LAMBDA k : Len(k) > 2)

\* score / keywords.length, in units of 1/SCORE_SCALE rounded down.  With no
\* keyword the quotient is NaN, which fails `score > 0` as 0 does.
keywordScore(content, keywords) ==
  LET contentLower == toLowerCase(content)
      score == Cardinality({i \in 1..Len(keywords) : includes(contentLower, keywords[i])})
  IN  IF Len(keywords) = 0 THEN 0
      ELSE (score * SCORE_SCALE) \div Len(keywords)

\* searchChunksByKeyword once findMany has returned found.
searchFrom(query, limit, found, docTable) ==
  LET keywords == keywordsOf(query)
      scored == [i \in 1..Len(found) |->
                   [id |-> found[i].id,
                    documentId |-> found[i].documentId,
                    content |-> found[i].content,
                    confidence |-> docTable[found[i].documentId].confidence,
                    score |-> keywordScore(found[i].content, keywords)]]
  IN  sliceTopK(sortByScoreDesc(SelectSeq(scored, LAMBDA c : c.score > 0)), limit)

(***************************************************************************)
(* Retrieval over a populated store                                        *)
(***************************************************************************)
DocIds == {"d1", "d2"}

\* A Document row as prisma.document.create leaves it in the upload route.
NewDocument(user, mime, course) ==
  [exists |-> TRUE, userId |-> user, mimeType |-> mime, courseCode |-> course,
   rawText |-> <<>>, cleanedText |-> <<>>, confidence |-> "medium"]

\* A Chunk row as prisma.chunk.create writes it in processDocument.
ChunkRow(documentId, content, embedding, chunkIndex) ==
  [id |-> <<documentId, chunkIndex>>, documentId |-> documentId,
   content |-> content, embedding |-> embedding, chunkIndex |-> chunkIndex]

\* Chunk contents and queries of the retrieval runs.
Queries == {<<"a", "a", "a">>, <<"a", "b">>}
RowKinds ==
  {[content |-> <<"a", "a", "a">>, vectorized |-> TRUE],
   [content |-> <<"b", "b", "b">>, vectorized |-> TRUE],
   [content |-> <<"a", "a", "a", " ", "b", "b", "b">>, vectorized |-> TRUE],
   [content |-> <<"a", "a", "a">>, vectorized |-> FALSE]}
\* Keyword searches also run a query that names one token twice.
SearchQueries ==
  Queries \cup {<<"a", "a", "a", " ", "a", "a", "a", " ", "b", "b", "b">>}
CourseArgs == {UNDEFINED, "", "CSC201", "MTH101"}
TopKs == {0, 1, MaxRows - 1, DEFAULT_TOP_K}
Limits == {1, DEFAULT_LIMIT}

\* The rows processDocument leaves for one document that was cut into n
\* chunks: indices 0..n-1, each with its embedding or, where vectorization
\* failed, with none.
RowsOf(n) == [1..n -> RowKinds]

StoredRows(d, spec) ==
  [i \in 1..Len(spec) |->
     ChunkRow(d, spec[i].content,
              IF spec[i].vectorized THEN generateEmbedding(spec[i].content)
              ELSE NullEmbedding,
              i - 1)]

InitRetrieve ==
  /\ chk = [called |-> FALSE]
  /\ docs = [d \in DocIds |->
               [NewDocument("u1", "application/pdf",
                            IF d = "d1" THEN "CSC201" ELSE "MTH101")
                  EXCEPT !.confidence = IF d = "d1" THEN "medium" ELSE "low"]]
  /\ \E n1 \in 0..MaxRows : \E n2 \in 0..(MaxRows - n1) :
       \E s1 \in RowsOf(n1) : \E s2 \in RowsOf(n2) :
         chunks = StoredRows("d1", s1) \o StoredRows("d2", s2)
  /\ run = IdleRun
  /\ ret = NoRet
  /\ NoBilling

\* The documents in the store, noted with each call's outcome.
LiveDocuments == {d \in DOMAIN docs : docs[d].exists}

\* retrieveRelevantChunks(query, courseCode, topK) when the store answers.
Retrieve ==
  /\ ret = NoRet
  /\ \E query \in Queries, courseCode \in CourseArgs, topK \in TopKs :
       \E allChunks \in RowOrders(chunksWithEmbedding(chunks)) :
         ret' = [op |-> "retrieve", query |-> query, courseCode |-> courseCode,
                 topK |-> topK, storeFailed |-> FALSE, threw |-> FALSE,
                 live |-> LiveDocuments,
                 result |-> retrieveFrom(query, courseCode, topK, allChunks, docs)]
  /\ UNCHANGED <<chk, docs, chunks, run, billing>>

\* retrieveRelevantChunks when prisma.chunk.findMany throws: the catch block
\* returns normally.
RetrieveStoreFails ==
  /\ ret = NoRet
  /\ \E query \in Queries, courseCode \in {UNDEFINED, "CSC201"} :
       ret' = [op |-> "retrieve", query |-> query, courseCode |-> courseCode,
               topK |-> DEFAULT_TOP_K, storeFailed |-> TRUE, threw |-> FALSE,
               live |-> LiveDocuments,
               result |-> retrieveCatch]
  /\ UNCHANGED <<chk, docs, chunks, run, billing>>

\* searchChunksByKeyword(query, courseCode, limit) when the store answers.
Search ==
  /\ ret = NoRet
  /\ \E query \in SearchQueries, courseCode \in CourseArgs \ {""}, limit \in Limits :
       \E found \in RowOrders(chunksOfCourse(chunks, courseCode, docs)) :
         ret' = [op |-> "search", query |-> query, courseCode |-> courseCode,
                 topK |-> limit, storeFailed |-> FALSE, threw |-> FALSE,
                 live |-> LiveDocuments,
                 result |-> [scored |-> <<>>,
                             chunks |-> searchFrom(query, limit, found, docs),
                             confidence |-> NULL]]
  /\ UNCHANGED <<chk, docs, chunks, run, billing>>

\* searchChunksByKeyword has no try block: a throwing findMany rejects.
SearchStoreFails ==
  /\ ret = NoRet
  /\ \E query \in Queries, courseCode \in {UNDEFINED, "CSC201"} :
       ret' = [op |-> "search", query |-> query, courseCode |-> courseCode,
               topK |-> DEFAULT_LIMIT, storeFailed |-> TRUE, threw |-> TRUE,
               live |-> LiveDocuments,
               result |-> [scored |-> <<>>, chunks |-> <<>>, confidence |-> NULL]]
  /\ UNCHANGED <<chk, docs, chunks, run, billing>>

NextRetrieve == Retrieve \/ RetrieveStoreFails \/ Search \/ SearchStoreFails

SpecRetrieve == InitRetrieve /\ [][NextRetrieve]_vars

(***************************************************************************)
(* Retrieval properties                                                    *)
(***************************************************************************)
Returned == ret.result.chunks

\* The stored row a returned chunk was made from.
RowOf(c) == CHOOSE r \in Elems(chunks) : r.id = c.id

\* The candidate rows of the finished call: a non-null vector and, under a
\* scope filter, an owning document of that course.
Candidates ==
  {r \in Elems(chunks) :
     /\ r.embedding # NullEmbedding
     /\ Truthy(ret.courseCode) => docs[r.documentId].courseCode = ret.courseCode}

ScoreOf(r) == cosineSimilarity(generateEmbedding(ret.query), r.embedding)

\* C2: a store failure during retrieveRelevantChunks reaches the caller as
\* an error, never as a normal result.
C2_FailurePropagates ==
  (ret.op = "retrieve" /\ ret.storeFailed) => ret.threw

\* C3: when there are candidates and each scores 0, retrieveRelevantChunks
\* returns no chunk, with confidence 'low'.
C3_DegenerateIsEmpty ==
  (/\ ret.op = "retrieve" /\ ~ret.storeFailed
   /\ Candidates # {}
   /\ \A r \in Candidates : ScoreOf(r) = 0)
  => (Returned = <<>> /\ ret.result.confidence = "low")

\* C4: in a list returned by retrieveRelevantChunks or searchChunksByKeyword,
\* of two chunks with equal score the one with the smaller chunkIndex is
\* first, whatever order the store returned the rows in.
C4_TieBreakByOrdinal ==
  (ret.op \in {"retrieve", "search"} /\ ~ret.threw) =>
    \A i, j \in 1..Len(Returned) :
      (i < j /\ Returned[i].score = Returned[j].score)
        => RowOf(Returned[i]).chunkIndex <= RowOf(Returned[j]).chunkIndex

\* C5: retrieveRelevantChunks returns min(topK, n) of the n candidates, each
\* once, in non-increasing score order, and leaves out no candidate that
\* scores higher than a returned one.
C5_TopKRanking ==
  (ret.op = "retrieve" /\ ~ret.storeFailed) =>
    LET cands == Candidates
        score == [r \in cands |-> ScoreOf(r)]
    IN  /\ Len(Returned) = Min(ret.topK, Cardinality(cands))
        /\ \A i \in 1..Len(Returned) :
             RowOf(Returned[i]) \in cands
               /\ Returned[i].score = score[RowOf(Returned[i])]
        /\ \A i, j \in 1..Len(Returned) :
             i < j => (Returned[i].id # Returned[j].id
                         /\ Returned[i].score >= Returned[j].score)
        /\ \A r \in cands :
             (\A i \in 1..Len(Returned) : Returned[i].id # r.id)
               => \A i \in 1..Len(Returned) : score[r] <= Returned[i].score

\* Three candidates of three different scores, the store returning the best
\* one last, and topK = 2: the lowest one is left out.
C5_Witness ==
  /\ ret.op = "retrieve" /\ ~ret.storeFailed
  /\ ret.topK = 2
  /\ Len(ret.result.scored) = 3
  /\ Len(Returned) = 2
  /\ ret.result.scored[3].id = Returned[1].id
  /\ Returned[1].score > Returned[2].score
  /\ \E r \in Candidates : ScoreOf(r) < Returned[2].score

\* C6: under a course-code scope filter c, every chunk returned by
\* retrieveRelevantChunks or searchChunksByKeyword belongs to a document
\* whose courseCode is c.
C6_ScopeFilter ==
  (ret.op \in {"retrieve", "search"} /\ Truthy(ret.courseCode)) =>
    \A i \in 1..Len(Returned) :
      docs[Returned[i].documentId].courseCode = ret.courseCode

\* A filtered retrieval that returns a chunk while a chunk of the other
\* course scores strictly higher.
C6_Witness ==
  /\ ret.op = "retrieve" /\ ~ret.storeFailed
  /\ ret.courseCode = "CSC201"
  /\ Returned # <<>>
  /\ \E r \in Elems(chunks) :
       /\ r.embedding # NullEmbedding
       /\ docs[r.documentId].courseCode = "MTH101"
       /\ ScoreOf(r) > Returned[1].score

\* C7: under a scope filter that no chunk with a vector matches,
\* retrieveRelevantChunks returns no chunk, with confidence 'low'.
C7_NoFallback ==
  (ret.op = "retrieve" /\ Truthy(ret.courseCode) /\ Candidates = {}) =>
    (Returned = <<>> /\ ret.result.confidence = "low")

\* A filtered retrieval with no candidate, the store answering, while the
\* other course has a chunk that matches the query exactly and the filtered
\* course has a chunk without a vector.
C7_Witness ==
  /\ ret.op = "retrieve" /\ ~ret.storeFailed
  /\ Truthy(ret.courseCode) /\ Candidates = {}
  /\ \E r \in Elems(chunks) :
       r.embedding # NullEmbedding /\ ScoreOf(r) = SCORE_SCALE
  /\ \E r \in Elems(chunks) :
       r.embedding = NullEmbedding
         /\ docs[r.documentId].courseCode = ret.courseCode

\* C8: the aggregate confidence is 'high' iff the mean m of the returned
\* scores exceeds 0.8, 'medium' iff 0.5 < m <= 0.8, and 'low' otherwise,
\* also when nothing is returned.
C8_Confidence ==
  ret.op = "retrieve" =>
    LET n == Len(Returned)
        total == SumOver([i \in 1..n |-> Returned[i].score], 1..n)
    IN  /\ (ret.result.confidence = "high")
             <=> (n > 0 /\ 10 * total > 8 * SCORE_SCALE * n)
        /\ (ret.result.confidence = "medium")
             <=> (n > 0 /\ 10 * total > 5 * SCORE_SCALE * n
                        /\ 10 * total <= 8 * SCORE_SCALE * n)
        /\ ret.result.confidence \in {"high", "medium", "low"}

\* Two returned chunks whose scores average exactly 0.5.
C8_Witness ==
  /\ ret.op = "retrieve" /\ ~ret.storeFailed
  /\ Len(Returned) = 2
  /\ Returned[1].score + Returned[2].score = SCORE_SCALE
  /\ ret.result.confidence = "low"

(***************************************************************************)
(* Ingestion pipeline                                                      *)
(***************************************************************************)
DEFAULT_CHUNK_SIZE == 500
DEFAULT_OVERLAP == 50

\* Media types the upload route lets through, one per kind of file.
MimeTypes == {"application/pdf", "image/png", "audio/mpeg"}

detectFileType(mimeType) ==
  CASE mimeType = "application/pdf" -> "pdf"
    [] mimeType \in {"image/jpeg", "image/png", "image/webp"} -> "image"
    [] mimeType \in {"audio/mpeg", "audio/wav", "audio/ogg", "audio/webm"} -> "audio"
    [] OTHER -> "unknown"

\* A paragraph of three-letter words, half the default chunk size long: two
\* of them, with the blank line between, do not fit one chunk.
Paragraph(c) ==
  [i \in 1..(DEFAULT_CHUNK_SIZE \div 2) |-> IF i % 4 = 0 THEN " " ELSE c]

\* A text of three such paragraphs, which chunkText cuts into three chunks.
LongText ==
  Paragraph("a") \o <<"\n", "\n">> \o Paragraph("b") \o <<"\n", "\n">> \o Paragraph("a")

\* What the extractor reads out of an uploaded file when it does not throw:
\* nothing, white space only, or text.  transcribeAudio returns its
\* placeholder text or throws.
ExtractedTexts(fileType) ==
  IF fileType = "audio" THEN {<<"a", "a", "b">>}
  ELSE {<<>>, <<" ", "\n">>, <<"a", "a", "b">>}

\* Answers of the chat-completion service to the cleanup request: an error
\* (ok = FALSE), or a completion with its content ('' when there is none).
CleanupResponses ==
  {[ok |-> FALSE, content |-> <<>>],
   [ok |-> TRUE, content |-> <<>>],
   [ok |-> TRUE, content |-> <<"a", "a", "a">>]}

\* cleanOcrText: the completion's content, or messyText when the content is
\* empty or the request failed.  It never throws.
cleanOcrText(messyText, response) ==
  IF response.ok
  THEN IF response.content # <<>> THEN response.content ELSE messyText
  ELSE messyText

\* The run of processDocument for one document: its position (pc), its
\* locals, and what happened to it (cleanupFailed: the cleanup request
\* failed; persisted: the write of the extracted text went through; threw:
\* the step whose error reached the catch block; visited: the steps the run
\* went through; nulls: the chunk indexes whose vectorization failed).
\* file is the text held by the file at filePath, runs the number of times
\* processDocument was called for the document.
NoRun ==
  [pc |-> "none", runs |-> 0, file |-> <<>>, fileType |-> "unknown", rawText |-> <<>>, cleanedText |-> <<>>,
   confidence |-> "medium", chunkList |-> <<>>, i |-> 0,
   embedding |-> NullEmbedding, cleanupFailed |-> FALSE, persisted |-> FALSE,
   threw |-> "none", visited |-> {}, nulls |-> {}]

NoDocument ==
  [exists |-> FALSE, userId |-> NULL, mimeType |-> NULL, courseCode |-> NULL,
   rawText |-> <<>>, cleanedText |-> <<>>, confidence |-> "medium"]

Init ==
  /\ chk = [called |-> FALSE]
  /\ docs = [d \in DocIds |-> NoDocument]
  /\ chunks = <<>>
  /\ run = [d \in DocIds |-> NoRun]
  /\ ret = NoRet
  /\ NoBilling

\* POST /api/upload: create the Document row and start processDocument.
Upload(d) ==
  /\ ~docs[d].exists /\ run[d].pc = "none"
  /\ \E mime \in MimeTypes, course \in {NULL, "CSC201"} :
       \E file \in ExtractedTexts(detectFileType(mime)) :
         /\ docs' = [docs EXCEPT ![d] = NewDocument("u1", mime, course)]
         /\ run' = [run EXCEPT ![d].pc = "start", ![d].runs = 1, ![d].file = file]
  /\ UNCHANGED <<chk, chunks, ret, billing>>

\* processDocument, lines 19-38: detect the file type and await the
\* extractor, which returns text or throws.
Extract(d) ==
  /\ run[d].pc = "start"
  /\ LET fileType == detectFileType(docs[d].mimeType) IN
       \/ /\ fileType # "unknown"
          /\ run' = [run EXCEPT ![d].pc = "extracted",
                             ![d].fileType = fileType,
                             ![d].rawText = run[d].file,
                             ![d].confidence =
                                IF fileType = "pdf" THEN "medium" ELSE "low",
                             ![d].visited = @ \cup {"extract"}]
       \/ run' = [run EXCEPT ![d].pc = "catch", ![d].fileType = fileType,
                              ![d].threw = "extract",
                              ![d].visited = @ \cup {"extract"}]
  /\ UNCHANGED <<chk, docs, chunks, ret, billing>>

\* PersistEmpty writing the confidence the extraction step left.
PersistEmptyKeepsConfidence(d) ==
  /\ run[d].pc = "extracted"
  /\ trim(run[d].rawText) = <<>>
  /\ IF docs[d].exists
     THEN /\ docs' = [docs EXCEPT ![d].rawText = <<>>, ![d].cleanedText = <<>>,
                                  ![d].confidence = run[d].confidence]
          /\ run' = [run EXCEPT ![d].pc = "done",
                                ![d].visited = @ \cup {"persistEmpty"}]
     ELSE /\ run' = [run EXCEPT ![d].pc = "catch", ![d].threw = "persistEmpty",
                                ![d].visited = @ \cup {"persistEmpty"}]
          /\ UNCHANGED docs
  /\ UNCHANGED <<chk, chunks, ret, billing>>

\* processDocument, lines 40-51: nothing extracted.
PersistEmpty(d) ==
  /\ run[d].pc = "extracted"
  /\ trim(run[d].rawText) = <<>>
  /\ IF docs[d].exists
     THEN /\ docs' = [docs EXCEPT ![d].rawText = <<>>, ![d].cleanedText = <<>>,
                                  ![d].confidence = "low"]
          /\ run' = [run EXCEPT ![d].pc = "done",
                                ![d].visited = @ \cup {"persistEmpty"}]
     ELSE /\ run' = [run EXCEPT ![d].pc = "catch", ![d].threw = "persistEmpty",
                                ![d].visited = @ \cup {"persistEmpty"}]
          /\ UNCHANGED docs
  /\ UNCHANGED <<chk, chunks, ret, billing>>

\* processDocument, lines 53-63: AI cleanup of image and audio text.
Clean(d) ==
  /\ run[d].pc = "extracted"
  /\ trim(run[d].rawText) # <<>>
  /\ run[d].fileType \in {"image", "audio"}
  /\ \E response \in CleanupResponses :
       run' = [run EXCEPT ![d].pc = "cleaned",
                          ![d].cleanedText = cleanOcrText(run[d].rawText, response),
                          ![d].confidence = "medium",
                          ![d].cleanupFailed = ~response.ok,
                          ![d].visited = @ \cup {"clean"}]
  /\ UNCHANGED <<chk, docs, chunks, ret, billing>>

\* processDocument, lines 65-77: write the text to the Document row, then
\* chunk it.
UpdateDocument(d) ==
  /\ \/ run[d].pc = "cleaned"
     \/ /\ run[d].pc = "extracted"
        /\ trim(run[d].rawText) # <<>>
        /\ run[d].fileType = "pdf"
  /\ LET cleanedText == IF run[d].pc = "cleaned" THEN run[d].cleanedText
                        ELSE run[d].rawText
         chunkList == chunkText(cleanedText, DEFAULT_CHUNK_SIZE, DEFAULT_OVERLAP)
     IN  IF docs[d].exists
         THEN /\ docs' = [docs EXCEPT ![d].rawText = run[d].rawText,
                                      ![d].cleanedText = cleanedText,
                                      ![d].confidence = run[d].confidence]
              /\ run' = [run EXCEPT ![d].pc = IF chunkList = <<>> THEN "done"
                                              ELSE "embed",
                                    ![d].cleanedText = cleanedText,
                                    ![d].chunkList = chunkList,
                                    ![d].i = 0,
                                    ![d].persisted = TRUE,
                                    ![d].visited = @ \cup {"update", "chunk"}]
         ELSE /\ run' = [run EXCEPT ![d].pc = "catch",
                                    ![d].cleanedText = cleanedText,
                                    ![d].threw = "update",
                                    ![d].visited = @ \cup {"update"}]
              /\ UNCHANGED docs
  /\ UNCHANGED <<chk, chunks, ret, billing>>

\* processDocument, lines 82-88: vectorize chunk i; a failure leaves null.
Embed(d) ==
  /\ run[d].pc = "embed"
  /\ \E embedding \in {generateEmbedding(run[d].chunkList[run[d].i + 1]),
                       NullEmbedding} :
       run' = [run EXCEPT ![d].pc = "create", ![d].embedding = embedding,
                          ![d].nulls = IF embedding = NullEmbedding
                                       THEN @ \cup {run[d].i} ELSE @,
                          ![d].visited = @ \cup {"embed"}]
  /\ UNCHANGED <<chk, docs, chunks, ret, billing>>

\* CreateChunk leaving out the chunks that have no vector.
CreateChunkSkipsNull(d) ==
  /\ run[d].pc = "create"
  /\ IF docs[d].exists
     THEN /\ chunks' = IF run[d].embedding = NullEmbedding THEN chunks
                       ELSE Append(chunks,
                              ChunkRow(d, run[d].chunkList[run[d].i + 1],
                                       run[d].embedding, run[d].i))
          /\ run' = [run EXCEPT ![d].i = run[d].i + 1,
                                ![d].pc = IF run[d].i + 1 < Len(run[d].chunkList)
                                          THEN "embed" ELSE "done",
                                ![d].visited = @ \cup {"create"}]
     ELSE /\ run' = [run EXCEPT ![d].pc = "catch", ![d].threw = "create",
                                ![d].visited = @ \cup {"create"}]
          /\ UNCHANGED chunks
  /\ UNCHANGED <<chk, docs, ret, billing>>

\* CreateChunk numbering the chunks from 1.
CreateChunkOneBased(d) ==
  /\ run[d].pc = "create"
  /\ IF docs[d].exists
     THEN /\ chunks' = Append(chunks,
                         ChunkRow(d, run[d].chunkList[run[d].i + 1],
                                  run[d].embedding, run[d].i + 1))
          /\ run' = [run EXCEPT ![d].i = run[d].i + 1,
                                ![d].pc = IF run[d].i + 1 < Len(run[d].chunkList)
                                          THEN "embed" ELSE "done",
                                ![d].visited = @ \cup {"create"}]
     ELSE /\ run' = [run EXCEPT ![d].pc = "catch", ![d].threw = "create",
                                ![d].visited = @ \cup {"create"}]
          /\ UNCHANGED chunks
  /\ UNCHANGED <<chk, docs, ret, billing>>

\* CreateChunk numbering the chunks by a counter all runs share: the number
\* of rows inserted so far.
CreateChunkSharedCounter(d) ==
  /\ run[d].pc = "create"
  /\ IF docs[d].exists
     THEN /\ chunks' = Append(chunks,
                         ChunkRow(d, run[d].chunkList[run[d].i + 1],
                                  run[d].embedding, Len(chunks)))
          /\ run' = [run EXCEPT ![d].i = run[d].i + 1,
                                ![d].pc = IF run[d].i + 1 < Len(run[d].chunkList)
                                          THEN "embed" ELSE "done",
                                ![d].visited = @ \cup {"create"}]
     ELSE /\ run' = [run EXCEPT ![d].pc = "catch", ![d].threw = "create",
                                ![d].visited = @ \cup {"create"}]
          /\ UNCHANGED chunks
  /\ UNCHANGED <<chk, docs, ret, billing>>

\* processDocument, lines 90-98: insert chunk i and go on to the next.
CreateChunk(d) ==
  /\ run[d].pc = "create"
  /\ IF docs[d].exists
     THEN /\ chunks' = Append(chunks,
                         ChunkRow(d, run[d].chunkList[run[d].i + 1],
                                  run[d].embedding, run[d].i))
          /\ run' = [run EXCEPT ![d].i = run[d].i + 1,
                                ![d].pc = IF run[d].i + 1 < Len(run[d].chunkList)
                                          THEN "embed" ELSE "done",
                                ![d].visited = @ \cup {"create"}]
     ELSE /\ run' = [run EXCEPT ![d].pc = "catch", ![d].threw = "create",
                                ![d].visited = @ \cup {"create"}]
          /\ UNCHANGED chunks
  /\ UNCHANGED <<chk, docs, ret, billing>>

\* Catch leaving the document's confidence as it is.
CatchKeepsConfidence(d) ==
  /\ run[d].pc = "catch"
  /\ run' = [run EXCEPT ![d].pc = IF docs[d].exists THEN "done" ELSE "rejected",
                        ![d].visited = @ \cup {"catch"}]
  /\ UNCHANGED <<chk, docs, chunks, ret, billing>>

\* processDocument, lines 101-109: the catch block marks the document low.
\* Its own write is not guarded: when it throws, the promise rejects.
Catch(d) ==
  /\ run[d].pc = "catch"
  /\ IF docs[d].exists
     THEN /\ docs' = [docs EXCEPT ![d].confidence = "low"]
          /\ run' = [run EXCEPT ![d].pc = "done",
                                ![d].visited = @ \cup {"catch"}]
     ELSE /\ run' = [run EXCEPT ![d].pc = "rejected",
                                ![d].visited = @ \cup {"catch"}]
          /\ UNCHANGED docs
  /\ UNCHANGED <<chk, chunks, ret, billing>>

\* A delete that leaves the chunks of the document behind.
cascadeDeleteNone(table, d) == table

\* The Chunk rows left when Document d is deleted: the relation of Chunk to
\* its Document deletes them with it.
cascadeDelete(table, d) == SelectSeq(table, LAMBDA r : r.documentId # d)

\* DELETE /api/upload/documents/:id: delete the Document row; the delete
\* cascades to its chunks.
DeleteDocument(d) ==
  /\ docs[d].exists
  /\ docs' = [docs EXCEPT ![d] = NoDocument]
  /\ chunks' = cascadeDelete(chunks, d)
  /\ UNCHANGED <<chk, run, ret, billing>>

Next ==
  \E d \in DocIds :
    \/ Upload(d)
    \/ DeleteDocument(d)
    \/ Extract(d)
    \/ PersistEmpty(d)
    \/ Clean(d)
    \/ UpdateDocument(d)
    \/ Embed(d)
    \/ CreateChunk(d)
    \/ Catch(d)

Spec == Init /\ [][Next]_vars

(***************************************************************************)
(* The pipeline on a document longer than one chunk                        *)
(***************************************************************************)
\* The state right after the upload of a PDF holding LongText as d1, with
\* or without a course code.
InitLongDocument ==
  /\ chk = [called |-> FALSE]
  /\ \E course \in {NULL, "CSC201"} :
       docs = [d \in DocIds |->
                 IF d = "d1" THEN NewDocument("u1", "application/pdf", course)
                 ELSE NoDocument]
  /\ chunks = <<>>
  /\ run = [d \in DocIds |->
              IF d = "d1"
              THEN [NoRun EXCEPT !.pc = "start", !.runs = 1, !.file = LongText]
              ELSE NoRun]
  /\ ret = NoRet
  /\ NoBilling

NextLongDocument ==
  \E d \in DocIds :
    \/ DeleteDocument(d)
    \/ Extract(d)
    \/ UpdateDocument(d)
    \/ Embed(d)
    \/ CreateChunk(d)
    \/ Catch(d)

SpecLongDocument == InitLongDocument /\ [][NextLongDocument]_vars

\* The same with the retrieval calls of the chat route in between.
NextLongRetrieval ==
  \/ NextLongDocument
  \/ Retrieve
  \/ Search

SpecLongRetrieval == InitLongDocument /\ [][NextLongRetrieval]_vars

(***************************************************************************)
(* processDocument called again for a document                             *)
(***************************************************************************)
\* processDocument(documentId, filePath, mimeType) called again, with the
\* same file, once the earlier run for the document is over.
Reprocess(d) ==
  /\ run[d].pc \in {"done", "rejected"}
  /\ run[d].runs < MaxRuns
  /\ run' = [run EXCEPT ![d] = [NoRun EXCEPT !.pc = "start",
                                             !.runs = run[d].runs + 1,
                                             !.file = run[d].file]]
  /\ UNCHANGED <<chk, docs, chunks, ret, billing>>

NextReingest ==
  \E d \in DocIds :
    \/ Reprocess(d)
    \/ DeleteDocument(d)
    \/ Extract(d)
    \/ UpdateDocument(d)
    \/ Embed(d)
    \/ CreateChunk(d)
    \/ Catch(d)

SpecReingest == InitLongDocument /\ [][NextReingest]_vars

(***************************************************************************)
(* Pipeline properties                                                     *)
(***************************************************************************)
\* C1: for an image or audio document with non-blank extracted text whose
\* AI cleanup failed, processDocument persists the raw text as the cleaned
\* text and the persisted confidence stays 'low'.
C1_CleanupFailureKeepsLow ==
  \A d \in DocIds :
    (/\ run[d].persisted /\ docs[d].exists
     /\ run[d].fileType \in {"image", "audio"}
     /\ run[d].cleanupFailed)
    => (/\ docs[d].rawText = run[d].rawText
        /\ docs[d].cleanedText = run[d].rawText
        /\ docs[d].confidence = "low")

\* C11: processDocument never rejects: whatever step fails, the failure
\* handler's own write included (the document was deleted meanwhile), the
\* returned promise resolves.
C11_NeverRejects ==
  \A d \in DocIds : run[d].pc # "rejected"

\* The chunk rows of document d, in the order they were inserted.
ChunksOf(d) == SelectSeq(chunks, LAMBDA r : r.documentId = d)

\* The run of processDocument for d is over.
Finished(d) == run[d].pc \in {"done", "rejected"}

\* C12: when extraction fails (unsupported media type or the extractor
\* throws), the finished run leaves the document with confidence 'low', its
\* rawText and cleanedText still empty, and no chunk.
C12_ExtractionFailure ==
  \A d \in DocIds :
    (run[d].threw = "extract" /\ Finished(d))
    => /\ ChunksOf(d) = <<>>
       /\ docs[d].exists => /\ docs[d].confidence = "low"
                             /\ docs[d].rawText = <<>>
                             /\ docs[d].cleanedText = <<>>

C12_Witness ==
  \E d \in DocIds :
    /\ run[d].threw = "extract" /\ run[d].pc = "done"
    /\ docs[d].exists /\ docs[d].confidence = "low"

\* The extractor of d returned text that is empty or white space only, and
\* the run has gone past the test at line 40.
BlankExtraction(d) ==
  /\ "extract" \in run[d].visited /\ run[d].threw # "extract"
  /\ trim(run[d].rawText) = <<>>
  /\ run[d].pc # "extracted"

\* What the empty-extraction short-circuit leaves: the success path with
\* neither cleanup, chunking nor vectorization, no chunk, and a document with
\* empty texts and confidence 'low'.
ShortCircuited(d) ==
  /\ run[d].pc = "done"
  /\ run[d].visited = {"extract", "persistEmpty"}
  /\ ChunksOf(d) = <<>>
  /\ docs[d].exists => /\ docs[d].rawText = <<>>
                        /\ docs[d].cleanedText = <<>>
                        /\ docs[d].confidence = "low"

ExpectedRows(d) ==
  [k \in 1..Len(run[d].chunkList) |->
     ChunkRow(d, run[d].chunkList[k],
              IF (k - 1) \in run[d].nulls THEN NullEmbedding
              ELSE generateEmbedding(run[d].chunkList[k]),
              k - 1)]

\* The run of d is over and vectorization failed for some of its chunks.
VectorizationFailed(d) == Finished(d) /\ run[d].nulls # {}

\* The run ended on the success path, every chunk is stored, and the
\* document's confidence is the one written with its text.
AllChunksPersisted(d) ==
  /\ run[d].pc = "done" /\ "catch" \notin run[d].visited
  /\ docs[d].exists => /\ ChunksOf(d) = ExpectedRows(d)
                        /\ docs[d].confidence = run[d].confidence

IndexesContiguous(d) ==
  LET rows == ChunksOf(d)
      segments == chunkText(docs[d].cleanedText, DEFAULT_CHUNK_SIZE, DEFAULT_OVERLAP)
  IN  /\ Len(rows) <= Len(segments)
      /\ \A k \in 1..Len(rows) : rows[k].chunkIndex \in 0..(Len(rows) - 1)
      /\ \A i \in 0..(Len(rows) - 1) :
           \E k \in 1..Len(rows) :
             /\ rows[k].chunkIndex = i
             /\ rows[k].content = segments[i + 1]
             /\ \A j \in 1..Len(rows) : rows[j].chunkIndex = i => j = k

\* C15 as stated: in every reachable state the chunk indexes of every
\* document are exactly 0..n-1, each once, chunk i holding the i-th segment:
\* during a run, after a failed run, and after processDocument is run again
\* for a document that already has chunks.
C15_ContiguousIndexes ==
  \A d \in DocIds : docs[d].exists => IndexesContiguous(d)

\* C15 as amended: the same for every document processDocument was run for
\* once; a second run adds rows numbered from 0 again.
C15_ContiguousIndexesOfOneRun ==
  \A d \in DocIds :
    (docs[d].exists /\ run[d].runs <= 1) => IndexesContiguous(d)

C15_Witness ==
  \E d \in DocIds :
    /\ docs[d].exists /\ run[d].runs = 1
    /\ run[d].pc = "embed" /\ run[d].i = 2
    /\ Len(ChunksOf(d)) = 2

\* C16: once a document is deleted no chunk references it in any later
\* state, and no later retrieveRelevantChunks or searchChunksByKeyword call
\* returns one of its chunks, also when it is deleted while processDocument
\* is creating its chunks.
C16_CascadeDelete ==
  /\ \A r \in Elems(chunks) : docs[r.documentId].exists
  /\ ret # NoRet =>
       \A k \in 1..Len(Returned) : Returned[k].documentId \in ret.live

C16_Witness ==
  /\ ret # NoRet /\ ~ret.storeFailed
  /\ \E d \in DocIds :
       /\ d \notin ret.live
       /\ run[d].threw = "create" /\ run[d].i >= 1

(***************************************************************************)
(* Keyword search properties                                               *)
(***************************************************************************)
\* The rows a finished keyword search had to choose from: all rows or, under
\* a scope filter, the rows of documents of that course.
InScope ==
  {r \in Elems(chunks) :
     Truthy(ret.courseCode) => docs[r.documentId].courseCode = ret.courseCode}

\* The score C17 states for a row: the distinct query tokens of length > 2
\* found in the lower-cased content, over the number of such tokens.
DistinctTokenScore(content, query) ==
  LET keywords == keywordsOf(query)
      found == {t \in Elems(keywords) : includes(toLowerCase(content), t)}
  IN  IF Len(keywords) = 0 THEN 0
      ELSE (Cardinality(found) * SCORE_SCALE) \div Len(keywords)

\* The score the code gives a row: every occurrence of a token in the query
\* that is found in the content counts.
OccurrenceScore(content, query) == keywordScore(content, keywordsOf(query))

SearchDone == ret.op = "search" /\ ~ret.storeFailed

\* C17: searchChunksByKeyword scores a chunk by the number of distinct query
\* tokens of length > 2 found in its lower-cased content over the number of
\* query tokens, a repeated token counting once; it leaves out the chunks
\* scoring 0 and returns the rest by descending score, at most `limit`.
C17_DistinctTokenScore ==
  SearchDone =>
    LET hits == {r \in InScope : DistinctTokenScore(r.content, ret.query) > 0}
    IN  /\ Len(Returned) = Min(ret.topK, Cardinality(hits))
        /\ \A k \in 1..Len(Returned) :
             /\ RowOf(Returned[k]) \in hits
             /\ Returned[k].score = DistinctTokenScore(Returned[k].content, ret.query)
        /\ \A k \in 1..(Len(Returned) - 1) : Returned[k].score >= Returned[k + 1].score

\* C18: a chunk stored with a null vector is never a candidate of, nor
\* returned by, retrieveRelevantChunks, but searchChunksByKeyword returns it
\* whenever its content holds a query token of length > 2, it is in scope
\* and the limit leaves room.
C18_NullVectorChunks ==
  /\ (ret.op = "retrieve" /\ ~ret.storeFailed) =>
       /\ \A k \in 1..Len(ret.result.scored) :
            RowOf(ret.result.scored[k]).embedding # NullEmbedding
       /\ \A k \in 1..Len(Returned) : RowOf(Returned[k]).embedding # NullEmbedding
  /\ SearchDone =>
       \A r \in InScope :
         (/\ r.embedding = NullEmbedding
          /\ OccurrenceScore(r.content, ret.query) > 0
          /\ Len(Returned) < ret.topK)
         => \E k \in 1..Len(Returned) : Returned[k].id = r.id

C18_Witness ==
  /\ SearchDone
  /\ \E k \in 1..Len(Returned) : RowOf(Returned[k]).embedding = NullEmbedding
  /\ \E r \in InScope : r.embedding # NullEmbedding

(***************************************************************************)
(* cosineSimilarity called on its own                                      *)
(***************************************************************************)
\* The values a floating-point operation may return for the exact quotient
\* num / den (den > 0): the exact value when it is representable, else one
\* of its two neighbours.  Representable values are the multiples of
\* 1/SCORE_SCALE; the operands are already in those units.
Roundings(num, den) == {num \div den, -((-num) \div den)}

\* Math.sqrt(n) for an integer n >= 0, in units of 1/SCORE_SCALE.
sqrtOutcomes(n) ==
  LET square == n * SCORE_SCALE * SCORE_SCALE
      lo == ISqrtBetween(square, 0, SCORE_SCALE * (n + 1))
  IN  IF lo * lo = square THEN {lo} ELSE {lo, lo + 1}

\* The sum of x[i] * y[i] over the indexes of two vectors of equal length,
\* as the loop of cosineSimilarity accumulates it.
RECURSIVE dotFrom(_, _, _)
dotFrom(x, y, i) ==
  IF i > Len(x) THEN 0 ELSE x[i] * y[i] + dotFrom(x, y, i + 1)

\* cosineSimilarity(a, b) on vectors of integers: the results the function
\* may return, in units of 1/SCORE_SCALE.  The sums are exact; the two square
\* roots, their product and the final quotient are rounded.
cosineOutcomes(a, b) ==
  IF Len(a) # Len(b) THEN {0}
  ELSE LET dotProduct == dotFrom(a, b, 1)
           normA == dotFrom(a, a, 1)
           normB == dotFrom(b, b, 1)
           magnitudes ==
             UNION {Roundings(rootA * rootB, SCORE_SCALE) :
                      <<rootA, rootB>> \in sqrtOutcomes(normA) \X sqrtOutcomes(normB)}
       IN  IF normA = 0 \/ normB = 0 THEN {0}
           ELSE UNION {Roundings(dotProduct * SCORE_SCALE * SCORE_SCALE, magnitude) :
                         magnitude \in magnitudes}

Components == {-1, 0, 1}
VectorsOfLen(n) == [1..n -> Components]
Vectors == UNION {VectorsOfLen(n) : n \in 0..MaxDim}

InitCosine ==
  /\ chk \in [a : Vectors, b : Vectors, called : {FALSE}, result : {0}]
  /\ docs = NoDocs
  /\ chunks = <<>>
  /\ run = IdleRun
  /\ ret = NoRet
  /\ NoBilling

\* cosineSimilarity(a, b)
CosineCall ==
  /\ ~chk.called
  /\ \E result \in cosineOutcomes(chk.a, chk.b) :
       chk' = [chk EXCEPT !.called = TRUE, !.result = result]
  /\ UNCHANGED <<docs, chunks, run, ret, billing>>

NextCosine == CosineCall

SpecCosine == InitCosine /\ [][NextCosine]_vars

\* C19: for vectors of equal length cosineSimilarity returns a value in
\* [-1, 1]: 1 for two identical (non-zero) vectors, 0 for two vectors that
\* share no non-zero dimension, and 0 when either vector has magnitude 0.
C19_CosineBounds ==
  (chk.called /\ Len(chk.a) = Len(chk.b)) =>
    LET shared == {i \in 1..Len(chk.a) : chk.a[i] # 0 /\ chk.b[i] # 0}
        zeroA == \A i \in 1..Len(chk.a) : chk.a[i] = 0
        zeroB == \A i \in 1..Len(chk.b) : chk.b[i] = 0
    IN  /\ chk.result \in (-SCORE_SCALE)..SCORE_SCALE
        /\ (chk.a = chk.b /\ ~zeroA) => chk.result = SCORE_SCALE
        /\ shared = {} => chk.result = 0
        /\ (zeroA \/ zeroB) => chk.result = 0

(***************************************************************************)
(* generateEmbedding called on its own                                     *)
(***************************************************************************)
\* The vector before the division by its magnitude: component k is
\* SCORE_SCALE * w[k], never rescaled.
embeddingOutcomesUnnormalized(text) ==
  LET e == generateEmbedding(text)
  IN  {[dim |-> e.dim, v |-> [k \in DOMAIN e.w |-> SCORE_SCALE * e.w[k]]]}

\* generateEmbedding(text) as the array it returns: the vectors the function
\* may return, component k in units of 1/SCORE_SCALE and listed for the
\* indexes accumulated into (every other component is 0).  The accumulated
\* counts are exact; Math.sqrt and each division v / magnitude are rounded,
\* equal numerators giving equal quotients.
embeddingOutcomes(text) ==
  LET e == generateEmbedding(text)
      support == DOMAIN e.w
      counts == {e.w[k] : k \in support}
      sumSquares == SumOver([k \in support |-> e.w[k] * e.w[k]], support)
      quotients(magnitude) ==
        {q \in [counts -> 0..(SCORE_SCALE + 1)] :
           \A c \in counts :
             q[c] \in Roundings(c * SCORE_SCALE * SCORE_SCALE, magnitude)}
  IN  IF sumSquares = 0 THEN {[dim |-> e.dim, v |-> <<>>]}
      ELSE UNION {{[dim |-> e.dim, v |-> [k \in support |-> q[e.w[k]]]] :
                     q \in quotients(magnitude)} :
                  magnitude \in sqrtOutcomes(sumSquares)}

\* Every index the accumulation loop of generateEmbedding writes to.
accumulationIndexes(text) ==
  LET uniqueWords == uniqueInOrder(splitWhitespace(toLowerCase(text), 1, <<>>), {})
  IN  {(charCode(uniqueWords[i][j]) * i * j) % EMBEDDING_DIM :
         <<i, j>> \in {h \in (1..Len(uniqueWords)) \X (1..Len(text)) :
                         h[2] <= Len(uniqueWords[h[1]])}}

EmbeddingChars == {"a", "b", "A", " ", "\n"}

RECURSIVE EmbeddingTextsOfLen(_)
EmbeddingTextsOfLen(n) ==
  IF n = 0 THEN {<<>>}
  ELSE {Append(t, c) : t \in EmbeddingTextsOfLen(n - 1), c \in EmbeddingChars}

EmbeddingTexts == UNION {EmbeddingTextsOfLen(n) : n \in 0..MaxText}

InitEmbedding ==
  /\ chk \in [text : EmbeddingTexts, called : {FALSE},
              vector : {[dim |-> 0, v |-> <<>>]}, indexes : {{}}]
  /\ docs = NoDocs
  /\ chunks = <<>>
  /\ run = IdleRun
  /\ ret = NoRet
  /\ NoBilling

\* generateEmbedding(text)
EmbeddingCall ==
  /\ ~chk.called
  /\ \E vector \in embeddingOutcomes(chk.text) :
       chk' = [chk EXCEPT !.called = TRUE, !.vector = vector,
                          !.indexes = accumulationIndexes(chk.text)]
  /\ UNCHANGED <<docs, chunks, run, ret, billing>>

NextEmbedding == EmbeddingCall

SpecEmbedding == InitEmbedding /\ [][NextEmbedding]_vars

\* The squared Euclidean norm of a returned vector, in units of
\* 1/SCORE_SCALE^2.
NormSquared(vector) ==
  SumOver([k \in DOMAIN vector.v |-> vector.v[k] * vector.v[k]], DOMAIN vector.v)

IsZeroVector(vector) == \A k \in DOMAIN vector.v : vector.v[k] = 0

HasContent(text) == \E i \in 1..Len(text) : ~IsSpace(text[i])

\* The parts of the embedding contract that involve no rounding: 768
\* components, accumulation indexes within 0..767, and the zero vector
\* exactly for a text without a non-white-space character.
EmbeddingShape ==
  /\ chk.vector.dim = 768
  /\ chk.indexes \subseteq 0..767
  /\ DOMAIN chk.vector.v \subseteq 0..767
  /\ IsZeroVector(chk.vector) <=> ~HasContent(chk.text)

\* The claim as stated: the embedding has 768 components, its accumulation
\* indexes lie in 0..767, it is the zero vector exactly when the text has
\* no non-white-space character, and its Euclidean norm is 1 otherwise.
C20_UnitNorm ==
  chk.called =>
    /\ EmbeddingShape
    /\ HasContent(chk.text) =>
         NormSquared(chk.vector) = SCORE_SCALE * SCORE_SCALE

\* C20: the embedding has 768 components, its accumulation indexes lie in
\* 0..767, it is the zero vector exactly when the text has no
\* non-white-space character, and otherwise its Euclidean norm is 1 to
\* within the rounding of the square root and of the divisions.
C20_UnitNormWithinRounding ==
  chk.called =>
    /\ EmbeddingShape
    /\ HasContent(chk.text) =>
         /\ NormSquared(chk.vector) >= (SCORE_SCALE - NormTolerance) * (SCORE_SCALE - NormTolerance)
         /\ NormSquared(chk.vector) <= (SCORE_SCALE + NormTolerance) * (SCORE_SCALE + NormTolerance)

\* An embedding of a text of two distinct words, with more than one
\* non-zero component and a norm that rounding moved off 1.
C20_Witness ==
  /\ chk.called
  /\ HasContent(chk.text)
  /\ Len(uniqueInOrder(splitWhitespace(toLowerCase(chk.text), 1, <<>>), {})) >= 2
  /\ Cardinality(DOMAIN chk.vector.v) >= 2
  /\ NormSquared(chk.vector) # SCORE_SCALE * SCORE_SCALE

(***************************************************************************)
(* chunkText with the loop of hardSplit taken one iteration at a time      *)
(***************************************************************************)
\* The concatenation of a sequence of sequences.
RECURSIVE Flatten(_)
Flatten(qs) == IF qs = <<>> THEN <<>> ELSE qs[1] \o Flatten(Tail(qs))

\* The arguments of the successive hardSplit calls of chunkText(text,
\* chunkSize): a paragraph reaches splitLongParagraph, and a sentence reaches
\* hardSplit, exactly when its trimmed length exceeds chunkSize (the
\* greedy-pack test before it then fails whatever the current chunk holds).
HardSplitCalls(text, chunkSize) ==
  LET cleanedText == trim(collapseNewlines(replaceCrLf(text), 1))
      paragraphs == splitParagraphs(cleanedText, 1, <<>>)
      trimmedParagraphs == [i \in 1..Len(paragraphs) |-> trim(paragraphs[i])]
      longParagraphs ==
        SelectSeq(trimmedParagraphs, LAMBDA q : q # <<>> /\ Len(q) > chunkSize)
      sentencesOf(q) ==
        LET m == matchSentences(q, 1)
            sentences == IF m = <<>> THEN <<q>> ELSE m
        IN  SelectSeq([i \in 1..Len(sentences) |-> trim(sentences[i])],
                      LAMBDA t : Len(t) > chunkSize)
  IN  IF trim(text) = <<>> THEN <<>>
      ELSE Flatten([i \in 1..Len(longParagraphs) |-> sentencesOf(longParagraphs[i])])

StepChunkSizes == {-1, 0, 1, 2, MaxStepLen - 1}
StepOverlaps == {-1, 0, 1}
StepTexts == UNION {TextsOfLen(n) : n \in 0..MaxStepLen}

InitChunkSteps ==
  /\ chk \in [text : StepTexts, chunkSize : StepChunkSizes, overlap : StepOverlaps,
              pc : {"called"}, calls : {<<>>}, call : {0}, i : {0},
              pushed : {0}, out : {<<>>}]
  /\ docs = NoDocs
  /\ chunks = <<>>
  /\ run = IdleRun
  /\ ret = NoRet
  /\ NoBilling

\* chunkText up to its first call of hardSplit, or to its return when there
\* is none.
ChunkTextEnter ==
  /\ chk.pc = "called"
  /\ LET calls == HardSplitCalls(chk.text, chk.chunkSize)
     IN  chk' = IF calls = <<>>
                THEN [chk EXCEPT !.pc = "returned",
                                 !.out = chunkText(chk.text, chk.chunkSize, chk.overlap)]
                ELSE [chk EXCEPT !.pc = "hardSplit", !.calls = calls, !.call = 1]
  /\ UNCHANGED <<docs, chunks, run, ret, billing>>

\* One iteration of `for (let i = 0; i < text.length; i += chunkSize)`:
\* a fragment is pushed and i moves by chunkSize.  The position is kept
\* down to -MaxStepLen and the number of fragments up to MaxPushed.
HardSplitStep ==
  /\ chk.pc = "hardSplit"
  /\ chk.i < Len(chk.calls[chk.call])
  /\ chk' = [chk EXCEPT !.i = Max(chk.i + chk.chunkSize, -MaxStepLen),
                        !.pushed = Min(chk.pushed + 1, MaxPushed)]
  /\ UNCHANGED <<docs, chunks, run, ret, billing>>

\* The loop of hardSplit ends: the next hardSplit call begins, or chunkText
\* returns after the last one.
HardSplitReturn ==
  /\ chk.pc = "hardSplit"
  /\ chk.i >= Len(chk.calls[chk.call])
  /\ chk' = IF chk.call < Len(chk.calls)
            THEN [chk EXCEPT !.call = chk.call + 1, !.i = 0, !.pushed = 0]
            ELSE [chk EXCEPT !.pc = "returned",
                             !.out = chunkText(chk.text, chk.chunkSize, chk.overlap)]
  /\ UNCHANGED <<docs, chunks, run, ret, billing>>

NextChunkSteps == ChunkTextEnter \/ HardSplitStep \/ HardSplitReturn

SpecChunkSteps == InitChunkSteps /\ [][NextChunkSteps]_vars

\* A text with no character other than white space.
Blank(text) == \A i \in 1..Len(text) : text[i] \in {" ", "\n", "\r", "\t"}

\* C21: for the empty string and for every text of white space only,
\* chunkText returns the empty sequence without running into hardSplit,
\* whatever chunkSize and overlap are.
C21_BlankTextNoChunks ==
  Blank(chk.text) =>
    /\ chk.pc \in {"called", "returned"}
    /\ chk.pc = "returned" => chk.out = <<>>

\* chunkText has returned for a text of blanks and line breaks, called
\* with a chunkSize below 1 and a positive overlap.
C21_Witness ==
  /\ chk.pc = "returned"
  /\ Blank(chk.text)
  /\ Len(chk.text) >= 2
  /\ \E i \in 1..Len(chk.text) : chk.text[i] = "\n"
  /\ chk.chunkSize <= 0
  /\ chk.overlap >= 1

\* C29: chunkText terminates for every text and every integer chunkSize and
\* overlap: each iteration of the loop of hardSplit, the only loop of the
\* chunker that does not run over a finite array, moves i forward, so that i
\* reaches text.length and the call returns.
C29_Terminates == [][HardSplitStep => chk'.i > chk.i]_vars

(***************************************************************************)
(* chunkText called twice with the same arguments                          *)
(***************************************************************************)
\* The arguments of the calls made in between.
BetweenCalls ==
  {[text |-> <<"a", ".", " ", "a", ".">>, chunkSize |-> 2, overlap |-> 1],
   [text |-> <<"a", "\n", "\n", "a">>, chunkSize |-> 1, overlap |-> 0],
   [text |-> <<" ">>, chunkSize |-> 3, overlap |-> 1]}

InitChunkTwice ==
  /\ chk \in [text : StepTexts, chunkSize : {1, 2, MaxStepLen - 1}, overlap : {0, 1},
              pc : {"start"}, first : {<<>>}, between : {0}, last : {<<>>},
              second : {<<>>}]
  /\ docs = NoDocs
  /\ chunks = <<>>
  /\ run = IdleRun
  /\ ret = NoRet
  /\ NoBilling

\* The first chunkText(text, chunkSize, overlap).
ChunkTextFirst ==
  /\ chk.pc = "start"
  /\ LET out == chunkText(chk.text, chk.chunkSize, chk.overlap)
     IN  chk' = [chk EXCEPT !.pc = "between", !.first = out, !.last = out]
  /\ UNCHANGED <<docs, chunks, run, ret, billing>>

\* A chunkText call with other arguments; last is the array it returned.
ChunkTextBetween ==
  /\ chk.pc = "between"
  /\ chk.between < MaxBetween
  /\ \E c \in BetweenCalls :
       chk' = [chk EXCEPT !.between = chk.between + 1,
                          !.last = chunkText(c.text, c.chunkSize, c.overlap)]
  /\ UNCHANGED <<docs, chunks, run, ret, billing>>

\* A second call that goes on filling the array of the call before it.
ChunkTextSecondKeepsArray ==
  /\ chk.pc = "between"
  /\ chk' = [chk EXCEPT !.pc = "done",
                        !.second = chk.last \o chunkText(chk.text, chk.chunkSize, chk.overlap)]
  /\ UNCHANGED <<docs, chunks, run, ret, billing>>

\* The second chunkText(text, chunkSize, overlap): its arrays and its
\* regular expressions are created by the call (`const chunks = []`, regex
\* literals), nothing of an earlier call is read.
ChunkTextSecond ==
  /\ chk.pc = "between"
  /\ chk' = [chk EXCEPT !.pc = "done",
                        !.second = chunkText(chk.text, chk.chunkSize, chk.overlap)]
  /\ UNCHANGED <<docs, chunks, run, ret, billing>>

NextChunkTwice == ChunkTextFirst \/ ChunkTextBetween \/ ChunkTextSecond

SpecChunkTwice == InitChunkTwice /\ [][NextChunkTwice]_vars

NonSpace(s) == SelectSeq(s, LAMBDA c : ~IsSpace(c))

\* C28: chunkText loses no content: for chunkSize >= 1 the non-white-space
\* characters of the text are, in order, those of the concatenation of the
\* segments built before overlap injection.
C28_NoContentLoss ==
  (chk.called /\ chk.chunkSize >= 1) =>
    NonSpace(Flatten(chk.pre)) = NonSpace(chk.text)

(***************************************************************************)
(* The pipeline when the store refuses a chunk                             *)
(***************************************************************************)
\* processDocument, lines 90-97 and 101: prisma.chunk.create rejects although
\* the document is there (the store is unavailable, the connection is lost)
\* and control goes to the catch block.
CreateChunkStoreFails(d) ==
  /\ run[d].pc = "create"
  /\ docs[d].exists
  /\ run' = [run EXCEPT ![d].pc = "catch", ![d].threw = "create",
                        ![d].visited = @ \cup {"create"}]
  /\ UNCHANGED <<chk, docs, chunks, ret, billing>>

NextStoreFailure ==
  \/ NextLongDocument
  \/ \E d \in DocIds : CreateChunkStoreFails(d)

SpecStoreFailure == InitLongDocument /\ [][NextStoreFailure]_vars

\* The number of writes the run for d has made to its Document row: the
\* write of the empty texts, the write of the extracted texts and the write
\* of the catch block, each counted when it succeeded.
DocumentWrites(d) ==
  (IF "persistEmpty" \in run[d].visited /\ run[d].threw # "persistEmpty"
   THEN 1 ELSE 0)
  + (IF run[d].persisted THEN 1 ELSE 0)
  + (IF "catch" \in run[d].visited /\ run[d].pc = "done" THEN 1 ELSE 0)

\* C26: a run of processDocument writes the Document row at most once; it
\* never stores the extracted text and confidence and later sets the
\* confidence to 'low'.
C26_WritesDocumentOnce ==
  \A d \in DocIds : DocumentWrites(d) <= 1

(***************************************************************************)
(* Two documents ingested at the same time                                 *)
(***************************************************************************)
\* The state right after two uploads: d1, a PDF holding LongText, and d2, an
\* image, each with its processDocument call started.
InitTwoRuns ==
  /\ chk = [called |-> FALSE]
  /\ docs = [d \in DocIds |->
               IF d = "d1" THEN NewDocument("u1", "application/pdf", NULL)
               ELSE NewDocument("u1", "image/png", "CSC201")]
  /\ chunks = <<>>
  /\ \E file \in ExtractedTexts("image") :
       run = [d \in DocIds |->
                [NoRun EXCEPT !.pc = "start", !.runs = 1,
                              !.file = IF d = "d1" THEN LongText ELSE file]]
  /\ ret = NoRet
  /\ NoBilling

\* The steps of the two runs, in any order.
NextTwoRuns ==
  \E d \in DocIds :
    \/ Extract(d)
    \/ PersistEmpty(d)
    \/ Clean(d)
    \/ UpdateDocument(d)
    \/ Embed(d)
    \/ CreateChunk(d)
    \/ Catch(d)

SpecTwoRuns == InitTwoRuns /\ [][NextTwoRuns]_vars

\* What processDocument leaves for d when it runs alone on the same file
\* with the same answers of its collaborators (the extractor threw or not,
\* the text the cleanup returned, the chunks whose vectorization failed):
\* the texts and the confidence of the Document row, and the Chunk rows.
SoloOutcome(d) ==
  LET fileType == detectFileType(docs[d].mimeType)
      failed == run[d].threw = "extract" \/ trim(run[d].file) = <<>>
      cleanedText == IF fileType = "pdf" THEN run[d].file ELSE run[d].cleanedText
      segments == chunkText(cleanedText, DEFAULT_CHUNK_SIZE, DEFAULT_OVERLAP)
  IN  IF failed
      THEN [rawText |-> <<>>, cleanedText |-> <<>>, confidence |-> "low",
            rows |-> <<>>]
      ELSE [rawText |-> run[d].file, cleanedText |-> cleanedText,
            confidence |-> "medium",
            rows |-> [k \in 1..Len(segments) |->
                        ChunkRow(d, segments[k],
                                 IF (k - 1) \in run[d].nulls THEN NullEmbedding
                                 ELSE generateEmbedding(segments[k]),
                                 k - 1)]]

\* What is persisted for d.
Persisted(d) ==
  [rawText |-> docs[d].rawText, cleanedText |-> docs[d].cleanedText,
   confidence |-> docs[d].confidence, rows |-> ChunksOf(d)]

\* What is persisted for d before its run has written anything.
Untouched(d) ==
  [rawText |-> <<>>, cleanedText |-> <<>>, confidence |-> "medium", rows |-> <<>>]

\* C27: two processDocument runs for different documents do not interfere,
\* whatever the order of their steps: in every state what is persisted for
\* a document (its Document row and the Chunk rows carrying its id) is what
\* its own run has written so far, and once the run is over it is what the
\* run leaves when it runs alone; every Chunk row belongs to the document
\* of the run that wrote it.
C27_RunsIndependent ==
  /\ \A r \in Elems(chunks) : r.documentId \in DocIds /\ r.id[1] = r.documentId
  /\ \A d \in DocIds :
       Persisted(d) =
         CASE run[d].pc = "done" -> SoloOutcome(d)
           [] run[d].pc \in {"embed", "create"} ->
                [SoloOutcome(d) EXCEPT !.rows = SubSeq(@, 1, run[d].i)]
           [] OTHER -> Untouched(d)

\* Both runs are over, d1 with three chunks and d2 with one, and the row of
\* d2 was inserted between two rows of d1.
C27_Witness ==
  /\ \A d \in DocIds : run[d].pc = "done"
  /\ Len(ChunksOf("d1")) = 3
  /\ Len(ChunksOf("d2")) = 1
  /\ \E k \in 2..(Len(chunks) - 1) : chunks[k].documentId = "d2"
  /\ run["d1"].nulls # {}

(***************************************************************************)
(* The chat route                                                          *)
(***************************************************************************)
UserIds == {"u1", "u2"}

\* The store after two users uploaded one document each, both of the same
\* course, and the pipeline left up to MaxRows chunks in all.
InitChat ==
  /\ chk = [called |-> FALSE]
  /\ docs = [d \in DocIds |->
               NewDocument(IF d = "d1" THEN "u1" ELSE "u2", "application/pdf", "CSC201")]
  /\ \E n1 \in 0..MaxRows : \E n2 \in 0..(MaxRows - n1) :
       \E s1 \in RowsOf(n1) : \E s2 \in RowsOf(n2) :
         chunks = StoredRows("d1", s1) \o StoredRows("d2", s2)
  /\ run = IdleRun
  /\ ret = NoRet
  /\ NoBilling

\* POST /api/chat by the authenticated user userId, lines 45-59: the chunks
\* come from retrieveRelevantChunks(message, courseCode), which is not given
\* the user; context and sources are built from every chunk returned.
Chat ==
  /\ ret = NoRet
  /\ \E userId \in UserIds, message \in Queries, courseCode \in {UNDEFINED, "CSC201"} :
       \E allChunks \in RowOrders(chunksWithEmbedding(chunks)) :
         LET result == retrieveFrom(message, courseCode, DEFAULT_TOP_K, allChunks, docs)
         IN  ret' = [op |-> "chat", userId |-> userId, query |-> message,
                     courseCode |-> courseCode, topK |-> DEFAULT_TOP_K,
                     storeFailed |-> FALSE, threw |-> FALSE,
                     live |-> LiveDocuments, result |-> result,
                     context |-> [k \in 1..Len(result.chunks) |-> result.chunks[k].content],
                     sources |-> [k \in 1..Len(result.chunks) |->
                                    result.chunks[k].documentId]]
  /\ UNCHANGED <<chk, docs, chunks, run, billing>>

NextChat == Chat

SpecChat == InitChat /\ [][NextChat]_vars

\* C23: every chunk the chat route retrieves for a user's message, and so
\* every piece of context and every source citation of the answer, belongs
\* to a document owned by that user.
C23_OwnChunksOnly ==
  ret.op = "chat" =>
    /\ \A k \in 1..Len(Returned) : docs[Returned[k].documentId].userId = ret.userId
    /\ \A k \in 1..Len(ret.sources) : docs[ret.sources[k]].userId = ret.userId

(***************************************************************************)
(* Accounts: requireAuth and the handlers behind it                        *)
(***************************************************************************)
FREE_UPLOAD_LIMIT == 2
SUBSCRIPTION_DAYS == 30

PaidPlans == {"PRO", "WHATSAPP"}

\* The users billed, and the slots in which requests, webhooks and jobs
\* run side by side.
Subscribers == {"u1"}
HandlerIds == {"h1", "h2"}

\* A User row as the account sync creates it; paystack is the state of the
\* user's subscription at Paystack ("none", "active", "disabling" once the
\* disable call went through, "disabled" once its webhook was handled).
NewUser ==
  [plan |-> "FREE", uploadCount |-> 0, paystackSubscriptionCode |-> NULL,
   paystack |-> "none"]

\* A handler slot with nothing running: n counts the handlers it has run.
\* user is req.user, the row requireAuth read; plan and endDate are the
\* arguments and the local of extendSubscription; expiredUsers is the list
\* cleanupExpiredSubscriptions goes through.
NoHandler ==
  [kind |-> "none", pc |-> "idle", n |-> 0, userId |-> NULL, user |-> NULL,
   plan |-> NULL, endDate |-> 0, expiredUsers |-> <<>>]

\* A slot starting a handler of the given kind for user u, and a slot whose
\* handler has ended.
Started(h, kind, pc, u) ==
  [NoHandler EXCEPT !.kind = kind, !.pc = pc, !.n = handlers[h].n + 1, !.userId = u]
Ended(h) == [NoHandler EXCEPT !.n = handlers[h].n]

CanStart(h) == handlers[h].pc = "idle" /\ handlers[h].n < MaxRequests

\* prisma.subscription.findFirst({ userId, active: true, endDate >= now })
hasActiveSubscription(table, u, now) ==
  \E i \in 1..Len(table) :
    table[i].userId = u /\ table[i].active /\ table[i].endDate >= now

\* prisma.subscription.updateMany({ where: { userId, active: true },
\* data: { active: false } })
deactivateAll(table, u) ==
  [i \in 1..Len(table) |->
     IF table[i].userId = u /\ table[i].active
     THEN [table[i] EXCEPT !.active = FALSE] ELSE table[i]]

\* requireAuth, lines 48-64: read the user row into req.user.
AuthFindUser(h) ==
  /\ handlers[h].pc = "findUser"
  /\ LET user == [plan |-> users[handlers[h].userId].plan,
                  uploadCount |-> users[handlers[h].userId].uploadCount]
     IN  handlers' = [handlers EXCEPT ![h].user = user,
                                      ![h].pc = IF user.plan \in PaidPlans
                                                THEN "findSubscription"
                                                ELSE "authenticated"]
  /\ UNCHANGED <<chk, docs, chunks, run, ret, users, subscriptions, clock>>

\* requireAuth, lines 65-73: look for an active subscription that has not
\* ended.
AuthFindSubscription(h) ==
  /\ handlers[h].pc = "findSubscription"
  /\ handlers' = [handlers EXCEPT ![h].pc =
                    IF hasActiveSubscription(subscriptions, handlers[h].userId, clock)
                    THEN "authenticated" ELSE "deactivate"]
  /\ UNCHANGED <<chk, docs, chunks, run, ret, users, subscriptions, clock>>

\* requireAuth, lines 76-79: deactivate the user's subscriptions.
AuthDeactivate(h) ==
  /\ handlers[h].pc = "deactivate"
  /\ subscriptions' = deactivateAll(subscriptions, handlers[h].userId)
  /\ handlers' = [handlers EXCEPT ![h].pc = "downgrade"]
  /\ UNCHANGED <<chk, docs, chunks, run, ret, users, clock>>

\* requireAuth, lines 81-86: downgrade the user to FREE.
AuthDowngrade(h) ==
  /\ handlers[h].pc = "downgrade"
  /\ users' = [users EXCEPT ![handlers[h].userId].plan = "FREE"]
  /\ handlers' = [handlers EXCEPT ![h].user.plan = "FREE", ![h].pc = "authenticated"]
  /\ UNCHANGED <<chk, docs, chunks, run, ret, subscriptions, clock>>

(***************************************************************************)
(* The upload quota                                                        *)
(***************************************************************************)
\* POST /api/upload arrives for user u.
StartUpload(h) ==
  /\ CanStart(h)
  /\ \E u \in Subscribers :
       handlers' = [handlers EXCEPT ![h] = Started(h, "upload", "findUser", u)]
  /\ UNCHANGED <<chk, docs, chunks, run, ret, users, subscriptions, clock>>

\* checkUploadQuota: 403 for a FREE user whose req.user.uploadCount has
\* reached the limit.
CheckUploadQuota(h) ==
  /\ handlers[h].kind = "upload" /\ handlers[h].pc = "authenticated"
  /\ handlers' = [handlers EXCEPT ![h] =
                    IF /\ handlers[h].user.plan = "FREE"
                       /\ handlers[h].user.uploadCount >= FREE_UPLOAD_LIMIT
                    THEN Ended(h)
                    ELSE [handlers[h] EXCEPT !.pc = "createDocument"]]
  /\ UNCHANGED <<chk, docs, chunks, run, ret, users, subscriptions, clock>>

\* POST /api/upload, lines 57-74: the file is accepted and its Document row
\* created (the row and the pipeline run are those of Upload).
CreateDocument(h) ==
  /\ handlers[h].pc = "createDocument"
  /\ handlers' = [handlers EXCEPT ![h].pc = "increment"]
  /\ UNCHANGED <<chk, docs, chunks, run, ret, users, subscriptions, clock>>

\* POST /api/upload, lines 76-91: uploadCount: { increment: 1 }.
IncrementUploadCount(h) ==
  /\ handlers[h].pc = "increment"
  /\ users' = [users EXCEPT ![handlers[h].userId].uploadCount = @ + 1]
  /\ handlers' = [handlers EXCEPT ![h] = Ended(h)]
  /\ UNCHANGED <<chk, docs, chunks, run, ret, subscriptions, clock>>

\* resetWeeklyUploadCounts: the weekly job sets the count of every FREE user
\* to 0.
ResetWeeklyUploadCounts ==
  /\ \E u \in Subscribers : users[u].plan = "FREE" /\ users[u].uploadCount > 0
  /\ users' = [u \in Subscribers |->
                IF users[u].plan = "FREE" THEN [users[u] EXCEPT !.uploadCount = 0]
                ELSE users[u]]
  /\ UNCHANGED <<chk, docs, chunks, run, ret, subscriptions, clock, handlers>>

InitAccounts ==
  /\ chk = [called |-> FALSE]
  /\ docs = NoDocs
  /\ chunks = <<>>
  /\ run = IdleRun
  /\ ret = NoRet
  /\ users = [u \in Subscribers |-> NewUser]
  /\ subscriptions = <<>>
  /\ clock = 0
  /\ handlers = [h \in HandlerIds |-> NoHandler]

NextUploadQuota ==
  \/ ResetWeeklyUploadCounts
  \/ \E h \in HandlerIds :
       \/ StartUpload(h)
       \/ AuthFindUser(h)
       \/ CheckUploadQuota(h)
       \/ CreateDocument(h)
       \/ IncrementUploadCount(h)

SpecUploadQuota == InitAccounts /\ [][NextUploadQuota]_vars

\* C25: a FREE user never has more than 2 uploads accepted between two
\* resets: the uploadCount of a FREE user is at most 2 in every state, also
\* when upload requests of the user are handled side by side.
C25_FreeUploadLimit ==
  \A u \in Subscribers :
    users[u].plan = "FREE" => users[u].uploadCount <= 2

(***************************************************************************)
(* Subscriptions: the Paystack webhooks, the cancel endpoint, the cleanup  *)
(* job                                                                     *)
(***************************************************************************)
\* Any authenticated request (requireAuth, then a handler that leaves the
\* billing tables alone).
StartRequest(h) ==
  /\ CanStart(h)
  /\ \E u \in Subscribers :
       handlers' = [handlers EXCEPT ![h] = Started(h, "request", "findUser", u)]
  /\ UNCHANGED <<chk, docs, chunks, run, ret, users, subscriptions, clock>>

Respond(h) ==
  /\ handlers[h].kind = "request" /\ handlers[h].pc = "authenticated"
  /\ handlers' = [handlers EXCEPT ![h] = Ended(h)]
  /\ UNCHANGED <<chk, docs, chunks, run, ret, users, subscriptions, clock>>

\* handleChargeSuccess: the webhook charge.success of user u, with the
\* metadata of a first payment (its plan) or without (a recurring charge,
\* looked up by the customer's email).
ChargeSuccess(h) ==
  /\ CanStart(h)
  /\ \E u \in Subscribers :
       \/ \E plan \in PaidPlans :
            handlers' = [handlers EXCEPT ![h] =
                          [Started(h, "charge", "extend", u) EXCEPT !.plan = plan]]
       \/ handlers' = [handlers EXCEPT ![h] = Started(h, "charge", "findByEmail", u)]
  /\ UNCHANGED <<chk, docs, chunks, run, ret, users, subscriptions, clock>>

\* handleChargeSuccess, lines 170-176: extendSubscription(user.id, user.plan).
ChargeFindByEmail(h) ==
  /\ handlers[h].pc = "findByEmail"
  /\ handlers' = [handlers EXCEPT ![h].plan = users[handlers[h].userId].plan,
                                  ![h].pc = "extend"]
  /\ UNCHANGED <<chk, docs, chunks, run, ret, users, subscriptions, clock>>

\* extendSubscription, lines 276-283: endDate is 30 days from now; the old
\* subscriptions are deactivated.
ExtendDeactivate(h) ==
  /\ handlers[h].pc = "extend"
  /\ subscriptions' = deactivateAll(subscriptions, handlers[h].userId)
  /\ handlers' = [handlers EXCEPT ![h].endDate = clock + SUBSCRIPTION_DAYS,
                                  ![h].pc = "create"]
  /\ UNCHANGED <<chk, docs, chunks, run, ret, users, clock>>

\* extendSubscription, lines 286-293: the new subscription.
ExtendCreate(h) ==
  /\ handlers[h].pc = "create"
  /\ subscriptions' = Append(subscriptions,
                         [userId |-> handlers[h].userId, plan |-> handlers[h].plan,
                          endDate |-> handlers[h].endDate, active |-> TRUE])
  /\ handlers' = [handlers EXCEPT ![h].pc = "setPlan"]
  /\ UNCHANGED <<chk, docs, chunks, run, ret, users, clock>>

\* extendSubscription, lines 296-299: the user's plan.
ExtendSetPlan(h) ==
  /\ handlers[h].pc = "setPlan"
  /\ users' = [users EXCEPT ![handlers[h].userId].plan = handlers[h].plan]
  /\ handlers' = [handlers EXCEPT ![h] = Ended(h)]
  /\ UNCHANGED <<chk, docs, chunks, run, ret, subscriptions, clock>>

\* handleSubscriptionCreate: Paystack opened the user's subscription and its
\* code is linked to the user.
SubscriptionCreate ==
  /\ \E u \in Subscribers :
       /\ users[u].paystack = "none"
       /\ users' = [users EXCEPT ![u].paystack = "active",
                                 ![u].paystackSubscriptionCode = "SUB_" \o u]
  /\ UNCHANGED <<chk, docs, chunks, run, ret, subscriptions, clock, handlers>>

\* POST /api/payments/cancel arrives for user u.
StartCancel(h) ==
  /\ CanStart(h)
  /\ \E u \in Subscribers :
       handlers' = [handlers EXCEPT ![h] = Started(h, "cancel", "findUser", u)]
  /\ UNCHANGED <<chk, docs, chunks, run, ret, users, subscriptions, clock>>

\* POST /cancel, lines 332-339: 400 without a subscription code.
CancelFindCode(h) ==
  /\ handlers[h].kind = "cancel" /\ handlers[h].pc = "authenticated"
  /\ handlers' = [handlers EXCEPT ![h] =
                    IF users[handlers[h].userId].paystackSubscriptionCode = NULL
                    THEN Ended(h) ELSE [handlers[h] EXCEPT !.pc = "disable"]]
  /\ UNCHANGED <<chk, docs, chunks, run, ret, users, subscriptions, clock>>

\* POST /cancel, lines 341-349: Paystack disables the subscription, or
\* answers with status false and the request ends with 400.
CancelDisable(h) ==
  /\ handlers[h].pc = "disable"
  /\ \/ /\ users[handlers[h].userId].paystack = "active"
        /\ users' = [users EXCEPT ![handlers[h].userId].paystack = "disabling"]
        /\ handlers' = [handlers EXCEPT ![h].pc = "clearCode"]
     \/ /\ handlers' = [handlers EXCEPT ![h] = Ended(h)]
        /\ UNCHANGED users
  /\ UNCHANGED <<chk, docs, chunks, run, ret, subscriptions, clock>>

\* POST /cancel, lines 351-359: the subscription code is cleared.
CancelClearCode(h) ==
  /\ handlers[h].pc = "clearCode"
  /\ users' = [users EXCEPT ![handlers[h].userId].paystackSubscriptionCode = NULL]
  /\ handlers' = [handlers EXCEPT ![h] = Ended(h)]
  /\ UNCHANGED <<chk, docs, chunks, run, ret, subscriptions, clock>>

\* The webhook subscription.disable of a subscription Paystack disabled.
SubscriptionCancel(h) ==
  /\ CanStart(h)
  /\ \A g \in HandlerIds : handlers[g].kind # "cancelWebhook"
  /\ \E u \in Subscribers :
       /\ users[u].paystack = "disabling"
       /\ handlers' = [handlers EXCEPT ![h] =
                         Started(h, "cancelWebhook", "cancelDeactivate", u)]
  /\ UNCHANGED <<chk, docs, chunks, run, ret, users, subscriptions, clock>>

\* handleSubscriptionCancel, lines 257-264.
SubscriptionCancelDeactivate(h) ==
  /\ handlers[h].pc = "cancelDeactivate"
  /\ subscriptions' = deactivateAll(subscriptions, handlers[h].userId)
  /\ handlers' = [handlers EXCEPT ![h].pc = "cancelClearCode"]
  /\ UNCHANGED <<chk, docs, chunks, run, ret, users, clock>>

\* handleSubscriptionCancel, lines 266-270.
SubscriptionCancelClearCode(h) ==
  /\ handlers[h].pc = "cancelClearCode"
  /\ users' = [users EXCEPT ![handlers[h].userId].paystackSubscriptionCode = NULL,
                            ![handlers[h].userId].paystack = "disabled"]
  /\ handlers' = [handlers EXCEPT ![h] = Ended(h)]
  /\ UNCHANGED <<chk, docs, chunks, run, ret, subscriptions, clock>>

\* cleanupExpiredSubscriptions, lines 8-29: the paid users without an active
\* subscription that has not ended.
CleanupFind(h) ==
  /\ CanStart(h)
  /\ LET expiredUsers ==
           {u \in Subscribers : /\ users[u].plan \in PaidPlans
                                /\ ~hasActiveSubscription(subscriptions, u, clock)}
     IN  handlers' = [handlers EXCEPT ![h] =
                       IF expiredUsers = {}
                       THEN [NoHandler EXCEPT !.n = handlers[h].n + 1]
                       ELSE [Started(h, "cleanup", "cleanupDeactivate", NULL)
                               EXCEPT !.expiredUsers = expiredUsers]]
  /\ UNCHANGED <<chk, docs, chunks, run, ret, users, subscriptions, clock>>

\* cleanupExpiredSubscriptions, lines 34-41: the next user of the list.
CleanupDeactivate(h) ==
  /\ handlers[h].pc = "cleanupDeactivate"
  /\ \E u \in handlers[h].expiredUsers :
       /\ subscriptions' = deactivateAll(subscriptions, u)
       /\ handlers' = [handlers EXCEPT ![h].userId = u, ![h].pc = "cleanupDowngrade"]
  /\ UNCHANGED <<chk, docs, chunks, run, ret, users, clock>>

\* cleanupExpiredSubscriptions, lines 43-48.
CleanupDowngrade(h) ==
  /\ handlers[h].pc = "cleanupDowngrade"
  /\ users' = [users EXCEPT ![handlers[h].userId].plan = "FREE"]
  /\ LET rest == handlers[h].expiredUsers \ {handlers[h].userId}
     IN  handlers' = [handlers EXCEPT ![h] =
                       IF rest = {} THEN Ended(h)
                       ELSE [handlers[h] EXCEPT !.expiredUsers = rest,
                                                !.userId = NULL,
                                                !.pc = "cleanupDeactivate"]]
  /\ UNCHANGED <<chk, docs, chunks, run, ret, subscriptions, clock>>

\* Time passes.
Tick ==
  /\ clock < MaxDays
  /\ clock' = clock + TickDays
  /\ UNCHANGED <<chk, docs, chunks, run, ret, users, subscriptions, handlers>>

NextSubscription ==
  \/ SubscriptionCreate
  \/ Tick
  \/ \E h \in HandlerIds :
       \/ StartRequest(h)
       \/ AuthFindUser(h)
       \/ AuthFindSubscription(h)
       \/ AuthDeactivate(h)
       \/ AuthDowngrade(h)
       \/ Respond(h)
       \/ ChargeSuccess(h)
       \/ ChargeFindByEmail(h)
       \/ ExtendDeactivate(h)
       \/ ExtendCreate(h)
       \/ ExtendSetPlan(h)
       \/ StartCancel(h)
       \/ CancelFindCode(h)
       \/ CancelDisable(h)
       \/ CancelClearCode(h)
       \/ SubscriptionCancel(h)
       \/ SubscriptionCancelDeactivate(h)
       \/ SubscriptionCancelClearCode(h)
       \/ CleanupFind(h)
       \/ CleanupDeactivate(h)
       \/ CleanupDowngrade(h)

SpecSubscription == InitAccounts /\ [][NextSubscription]_vars

\* C30: each user has at most one subscription with active = true at any
\* time, whatever the interleaving of charge.success webhooks, cancellation
\* webhooks, requireAuth downgrades and cleanupExpiredSubscriptions.
C30_OneActiveSubscription ==
  \A u \in Subscribers :
    Cardinality({i \in 1..Len(subscriptions) :
                  subscriptions[i].userId = u /\ subscriptions[i].active}) <= 1

\* C24: once the user's subscription is cancelled (the cancel endpoint, then
\* the webhook), the user keeps the paid plan until the subscription's
\* endDate: a step takes the plan from paid to FREE only when every
\* subscription of the user has ended.
C24_PaidUntilEndDate ==
  [][\A u \in Subscribers :
       (/\ users[u].paystack = "disabled"
        /\ users[u].plan \in PaidPlans
        /\ users'[u].plan = "FREE")
       => \A i \in 1..Len(subscriptions) :
            subscriptions[i].userId = u => subscriptions[i].endDate < clock]_vars

====
